---- MODULE Spec2Model ----
(***************************************************************************)
(* Build critical-path listener of buck2_build_api                         *)
(* (app/buck2_build_api/src/actions/build_listener.rs).                    *)
(*                                                                         *)
(* The module models the signal channel, the single consumer task          *)
(* (BuildSignalReceiver::run_and_log), the two backends and the lifecycle  *)
(* function scope().  Durations are natural numbers of one opaque unit.    *)
(***************************************************************************)
EXTENDS Integers, Sequences, FiniteSets, TLC

(***************************************************************************)
(* Option<T>: None is the empty sequence, Some(x) the one-element one.     *)
(***************************************************************************)
None == <<>>
Some(x) == <<x>>
IsSome(o) == Len(o) = 1
Unwrap(o) == o[1]

\* anyhow::Error values: what failed, and the key it failed on if any.
Error(what, detail) == [error |-> what, detail |-> detail]

\* anyhow::Result<T>.
Ok(v) == [ok |-> TRUE, value |-> Some(v), err |-> None]
Err(e) == [ok |-> FALSE, value |-> None, err |-> Some(e)]

(***************************************************************************)
(* Bounds of the model.                                                    *)
(***************************************************************************)
\* Total number of signal() calls made by the producers of one build.
MaxSends == 2

(***************************************************************************)
(* Node identities (enum NodeKey).                                         *)
(***************************************************************************)
ActionKey(id) == [kind |-> "ActionKey", id |-> id]
TransitiveSetProjection(id) == [kind |-> "TransitiveSetProjection", id |-> id]

(***************************************************************************)
(* Generic sequence helpers used by the iterator chains of the source.     *)
(***************************************************************************)
Range(s) == {s[i] : i \in DOMAIN s}

\* Itertools::unique(): keeps the first occurrence of every element.
Unique(s) ==
    LET F[i \in 0..Len(s)] ==
            IF i = 0 THEN <<>>
            ELSE IF s[i] \in Range(F[i - 1]) THEN F[i - 1]
                 ELSE Append(F[i - 1], s[i])
    IN  F[Len(s)]

Reverse(s) == [i \in 1..Len(s) |-> s[Len(s) + 1 - i]]

\* Variant: the FIRST element of maximum key.
MaxByKeyFirst(s, k) ==
    IF Len(s) = 0 THEN None
    ELSE LET best == CHOOSE i \in DOMAIN s :
                        /\ \A j \in DOMAIN s : k[j] <= k[i]
                        /\ \A j \in DOMAIN s : j < i => k[j] < k[i]
         IN  Some(s[best])

\* Iterator::max_by_key on a sequence: the LAST element of maximum key, None
\* on an empty sequence.  Op(key(_)) is passed as a function of the index.
MaxByKeyLast(s, k) ==
    IF Len(s) = 0 THEN None
    ELSE LET best == CHOOSE i \in DOMAIN s :
                        /\ \A j \in DOMAIN s : k[j] <= k[i]
                        /\ \A j \in DOMAIN s : j > i => k[j] < k[i]
         IN  Some(s[best])

\* Every enumeration of a finite set (the iteration orders of a HashSet).
Enumerations(S) ==
    {s \in [1..Cardinality(S) -> S] : Range(s) = S}

\* Duration::saturating_sub.
SaturatingSub(a, b) == IF a >= b THEN a - b ELSE 0

(***************************************************************************)
(* RegisteredAction, as far as the listener reads it: key(), owner(),      *)
(* category(), identifier() and the fallible inputs().                     *)
(* An ArtifactGroup is an Artifact (with the key of the action producing   *)
(* it, None for a source artifact) or a TransitiveSetProjection key.       *)
(***************************************************************************)
Artifact(maybe_action_key) == [group |-> "Artifact", action_key |-> maybe_action_key]
TSetGroup(id) == [group |-> "TransitiveSetProjection", key |-> id]

InputsOk(groups) == [ok |-> TRUE, groups |-> groups]
InputsErr == [ok |-> FALSE, groups |-> <<>>]

RegisteredAction(key, identifier, inputs) ==
    [key |-> key, owner |-> "owner", category |-> "category",
     identifier |-> identifier, inputs |-> inputs]

\* std Duration -> protobuf Duration (duration.try_into()): fails above the
\* protobuf range.  The range is scaled down to the model's duration unit.
ProtoDurationMax == 1000
DurationTryIntoProto(d) == [ok |-> d <= ProtoDurationMax, value |-> d]

\* format!("{} {}{}", owner, category, identifier.map_or("", "[{}]"))
ActionName(action) ==
    <<action.owner, " ", action.category>>
        \o (IF IsSome(action.identifier)
            THEN <<"[", Unwrap(action.identifier), "]">>
            ELSE <<>>)

\* identifier.map_or_else(|| "", |i| i)
IdentifierOrEmpty(action) ==
    IF IsSome(action.identifier) THEN Unwrap(action.identifier) ELSE ""

\* One CriticalPathEntry of the summary.
CriticalPathEntry(action, duration) ==
    [action_name |-> ActionName(action),
     action_key |-> Some(action.key),
     duration |-> Some(DurationTryIntoProto(duration).value),
     action_name_fields |-> Some([category |-> action.category,
                                  identifier |-> IdentifierOrEmpty(action)])]

\* collect::<Result<Vec<_>, _>>() over (action, duration) pairs: the entries,
\* or the error of the first duration that does not convert.
CollectEntries(pairs) ==
    IF \E i \in DOMAIN pairs : ~DurationTryIntoProto(pairs[i][2]).ok
    THEN [ok |-> FALSE, err |-> Error("DurationConversion", None)]
    ELSE [ok |-> TRUE,
          entries |-> [i \in DOMAIN pairs |->
                          CriticalPathEntry(pairs[i][1], pairs[i][2])]]

BuildInfo(critical_path, num_nodes, num_edges) ==
    [critical_path |-> critical_path, num_nodes |-> num_nodes, num_edges |-> num_edges]

FinishOk(info) == [ok |-> TRUE, info |-> info]
FinishErr(e) == [ok |-> FALSE, err |-> e]

(***************************************************************************)
(* Streaming backend (struct DefaultBackend).                              *)
(***************************************************************************)
CriticalPathNode(duration, value, prev) ==
    [duration |-> duration, value |-> value, prev |-> prev]

EmptyMap == [k \in {} |-> None]

DefaultBackendNew ==
    [kind |-> "Default", predecessors |-> EmptyMap, num_nodes |-> 0, num_edges |-> 0]

\* HashMap::insert: the entry of `key` is added or replaced.
MapInsert(m, key, v) ==
    [k \in (DOMAIN m) \cup {key} |-> IF k = key THEN v ELSE m[k]]

\* Variant: the recorded dependency seen last is chosen, whatever its duration.
DefaultProcessNodeLastDep(b, key, value, duration, dep_keys) ==
    LET uniq == Unique(dep_keys)
        recorded == SelectSeq(uniq, LAMBDA k : k \in DOMAIN b.predecessors)
        longest_ancestor ==
            IF recorded = <<>> THEN None ELSE Some(recorded[Len(recorded)])
        node ==
            IF IsSome(longest_ancestor)
            THEN CriticalPathNode(
                     b.predecessors[Unwrap(longest_ancestor)].duration + duration,
                     value, Some(Unwrap(longest_ancestor)))
            ELSE CriticalPathNode(duration, value, None)
    IN  [b EXCEPT !.num_edges = b.num_edges + Len(uniq),
                  !.num_nodes = b.num_nodes + 1,
                  !.predecessors = MapInsert(b.predecessors, key, node)]

\* Variant: only the dependency keys that have a record are counted as edges.
DefaultProcessNodeCountRecorded(b, key, value, duration, dep_keys) ==
    LET uniq == Unique(dep_keys)
        recorded == SelectSeq(uniq, LAMBDA k : k \in DOMAIN b.predecessors)
        longest_ancestor ==
            MaxByKeyLast(recorded,
                         [i \in DOMAIN recorded |-> b.predecessors[recorded[i]].duration])
        node ==
            IF IsSome(longest_ancestor)
            THEN CriticalPathNode(
                     b.predecessors[Unwrap(longest_ancestor)].duration + duration,
                     value, Some(Unwrap(longest_ancestor)))
            ELSE CriticalPathNode(duration, value, None)
    IN  [b EXCEPT !.num_edges = b.num_edges + Len(recorded),
                  !.num_nodes = b.num_nodes + 1,
                  !.predecessors = MapInsert(b.predecessors, key, node)]

\* Variant: a key that already has a record keeps it (entry().or_insert).
DefaultProcessNodeKeepExisting(b, key, value, duration, dep_keys) ==
    LET uniq == Unique(dep_keys)
        recorded == SelectSeq(uniq, LAMBDA k : k \in DOMAIN b.predecessors)
        longest_ancestor ==
            MaxByKeyLast(recorded,
                         [i \in DOMAIN recorded |-> b.predecessors[recorded[i]].duration])
        node ==
            IF key \in DOMAIN b.predecessors THEN b.predecessors[key]
            ELSE IF IsSome(longest_ancestor)
            THEN CriticalPathNode(
                     b.predecessors[Unwrap(longest_ancestor)].duration + duration,
                     value, Some(Unwrap(longest_ancestor)))
            ELSE CriticalPathNode(duration, value, None)
    IN  [b EXCEPT !.num_edges = b.num_edges + Len(uniq),
                  !.num_nodes = b.num_nodes + 1,
                  !.predecessors = MapInsert(b.predecessors, key, node)]

\* Variant: the cumulative duration is the node's own duration alone.
DefaultProcessNodeOwnDurationOnly(b, key, value, duration, dep_keys) ==
    LET uniq == Unique(dep_keys)
        recorded == SelectSeq(uniq, LAMBDA k : k \in DOMAIN b.predecessors)
        longest_ancestor ==
            MaxByKeyLast(recorded,
                         [i \in DOMAIN recorded |-> b.predecessors[recorded[i]].duration])
        node == CriticalPathNode(duration, value, longest_ancestor)
    IN  [b EXCEPT !.num_edges = b.num_edges + Len(uniq),
                  !.num_nodes = b.num_nodes + 1,
                  !.predecessors = MapInsert(b.predecessors, key, node)]

\* Variant: with no recorded dependency, the last dependency named becomes
\* prev although it has no record.
DefaultProcessNodePrevUnrecorded(b, key, value, duration, dep_keys) ==
    LET uniq == Unique(dep_keys)
        recorded == SelectSeq(uniq, LAMBDA k : k \in DOMAIN b.predecessors)
        longest_ancestor ==
            MaxByKeyLast(recorded,
                         [i \in DOMAIN recorded |-> b.predecessors[recorded[i]].duration])
        node ==
            IF IsSome(longest_ancestor)
            THEN CriticalPathNode(
                     b.predecessors[Unwrap(longest_ancestor)].duration + duration,
                     value, Some(Unwrap(longest_ancestor)))
            ELSE CriticalPathNode(duration, value,
                                  IF uniq = <<>> THEN None
                                  ELSE Some(uniq[Len(uniq)]))
    IN  [b EXCEPT !.num_edges = b.num_edges + Len(uniq),
                  !.num_nodes = b.num_nodes + 1,
                  !.predecessors = MapInsert(b.predecessors, key, node)]

\* Variant: the record of the dependency taken as prev is moved out of the map.
DefaultProcessNodeTakeAncestor(b, key, value, duration, dep_keys) ==
    LET uniq == Unique(dep_keys)
        recorded == SelectSeq(uniq, LAMBDA k : k \in DOMAIN b.predecessors)
        longest_ancestor ==
            MaxByKeyLast(recorded,
                         [i \in DOMAIN recorded |-> b.predecessors[recorded[i]].duration])
        node ==
            IF IsSome(longest_ancestor)
            THEN CriticalPathNode(
                     b.predecessors[Unwrap(longest_ancestor)].duration + duration,
                     value, None)
            ELSE CriticalPathNode(duration, value, None)
        rest == IF IsSome(longest_ancestor)
                THEN [k \in DOMAIN b.predecessors \ {Unwrap(longest_ancestor)} |->
                         b.predecessors[k]]
                ELSE b.predecessors
    IN  [b EXCEPT !.num_edges = b.num_edges + Len(uniq),
                  !.num_nodes = b.num_nodes + 1,
                  !.predecessors = MapInsert(rest, key, node)]

\* Variant: the cumulative duration adds up every recorded dependency.
DefaultProcessNodeSumDeps(b, key, value, duration, dep_keys) ==
    LET uniq == Unique(dep_keys)
        recorded == SelectSeq(uniq, LAMBDA k : k \in DOMAIN b.predecessors)
        longest_ancestor ==
            MaxByKeyLast(recorded,
                         [i \in DOMAIN recorded |-> b.predecessors[recorded[i]].duration])
        total[i \in 0..Len(recorded)] ==
            IF i = 0 THEN 0
            ELSE total[i - 1] + b.predecessors[recorded[i]].duration
        node ==
            IF IsSome(longest_ancestor)
            THEN CriticalPathNode(total[Len(recorded)] + duration,
                                  value, Some(Unwrap(longest_ancestor)))
            ELSE CriticalPathNode(duration, value, None)
    IN  [b EXCEPT !.num_edges = b.num_edges + Len(uniq),
                  !.num_nodes = b.num_nodes + 1,
                  !.predecessors = MapInsert(b.predecessors, key, node)]

\* DefaultBackend::process_node.
DefaultProcessNode(b, key, value, duration, dep_keys) ==
    LET uniq == Unique(dep_keys)
        recorded == SelectSeq(uniq, LAMBDA k : k \in DOMAIN b.predecessors)
        longest_ancestor ==
            MaxByKeyLast(recorded,
                         [i \in DOMAIN recorded |-> b.predecessors[recorded[i]].duration])
        node ==
            IF IsSome(longest_ancestor)
            THEN CriticalPathNode(
                     b.predecessors[Unwrap(longest_ancestor)].duration + duration,
                     value, Some(Unwrap(longest_ancestor)))
            ELSE CriticalPathNode(duration, value, None)
    IN  [b EXCEPT !.num_edges = b.num_edges + Len(uniq),
                  !.num_nodes = b.num_nodes + 1,
                  !.predecessors = MapInsert(b.predecessors, key, node)]

\* Variant: any key of the map can be taken as the terminal.
TerminalsAnyKey(predecessors) == DOMAIN predecessors

\* The keys HashMap::iter().max_by_key(duration) can return: any key of
\* maximum duration, since the iteration order of a HashMap is unspecified.
Terminals(predecessors) ==
    {k \in DOMAIN predecessors :
        \A j \in DOMAIN predecessors :
            predecessors[j].duration <= predecessors[k].duration}

\* itertools::unfold over the prev links, from `maybe_key`.  `fuel` bounds the
\* walk: a walk longer than the map has entries is in a cycle and never ends.
RECURSIVE UnfoldPrev(_, _, _)
UnfoldPrev(predecessors, maybe_key, fuel) ==
    IF ~IsSome(maybe_key) THEN [diverges |-> FALSE, path |-> <<>>]
    ELSE IF Unwrap(maybe_key) \notin DOMAIN predecessors
         THEN [diverges |-> FALSE, path |-> <<>>]
    ELSE IF fuel = 0 THEN [diverges |-> TRUE, path |-> <<>>]
    ELSE LET key == Unwrap(maybe_key)
             x == predecessors[key]
             rest == UnfoldPrev(predecessors, x.prev, fuel - 1)
         IN  [diverges |-> rest.diverges,
              path |-> <<[key |-> key, value |-> x.value, duration |-> x.duration]>>
                          \o rest.path]

\* Variant: the differences are taken front to back, so each one is taken
\* from the already converted entry before it.
ExtractFromForwardDiff(predecessors, terminal) ==
    LET walk == UnfoldPrev(predecessors, terminal, Cardinality(DOMAIN predecessors))
        rev == Reverse(walk.path)
        D[i \in 0..Len(rev)] ==
            IF i = 0 THEN 0
            ELSE IF i = 1 THEN rev[1].duration
            ELSE SaturatingSub(rev[i].duration, D[i - 1])
        diffed == [i \in DOMAIN rev |-> [rev[i] EXCEPT !.duration = D[i]]]
    IN  [diverges |-> walk.diverges, path |-> diffed]

\* extract_critical_path with the terminal already picked (None on an empty map).
ExtractFrom(predecessors, terminal) ==
    LET walk == UnfoldPrev(predecessors, terminal, Cardinality(DOMAIN predecessors))
        rev == Reverse(walk.path)
        diffed == [i \in DOMAIN rev |->
                      IF i = 1 THEN rev[i]
                      ELSE [rev[i] EXCEPT
                               !.duration = SaturatingSub(rev[i].duration,
                                                          rev[i - 1].duration)]]
    IN  [diverges |-> walk.diverges, path |-> diffed]

\* Variant: the terminal is unwrapped, so an empty map yields no result.
extract_critical_pathUnwrapTerminal(predecessors) ==
    {ExtractFrom(predecessors, Some(t)) : t \in Terminals(predecessors)}

\* extract_critical_path: every result the function can return for the map.
extract_critical_path(predecessors) ==
    IF DOMAIN predecessors = {} THEN {ExtractFrom(predecessors, None)}
    ELSE {ExtractFrom(predecessors, Some(t)) : t \in Terminals(predecessors)}

\* Variant: entries of zero duration stay in the reported path.
DefaultFinishPathKeepZero(b, path) ==
    LET kept == SelectSeq(path, LAMBDA e : IsSome(e.value))
        pairs == [i \in DOMAIN kept |-> <<Unwrap(kept[i].value), kept[i].duration>>]
        entries == CollectEntries(pairs)
    IN  IF entries.ok
        THEN FinishOk(BuildInfo(entries.entries, b.num_nodes, b.num_edges))
        ELSE FinishErr(entries.err)

\* DefaultBackend::finish on one extracted path.
DefaultFinishPath(b, path) ==
    LET kept == SelectSeq(path, LAMBDA e : IsSome(e.value) /\ e.duration # 0)
        pairs == [i \in DOMAIN kept |-> <<Unwrap(kept[i].value), kept[i].duration>>]
        entries == CollectEntries(pairs)
    IN  IF entries.ok
        THEN FinishOk(BuildInfo(entries.entries, b.num_nodes, b.num_edges))
        ELSE FinishErr(entries.err)

\* DefaultBackend::finish: the set of results it can produce; the empty set
\* when every walk of the prev links runs into a cycle (finish never returns).
DefaultFinish(b) ==
    {DefaultFinishPath(b, x.path) :
        x \in {y \in extract_critical_path(b.predecessors) : ~y.diverges}}

(***************************************************************************)
(* buck2_critical_path: GraphBuilder and compute_critical_path_potentials. *)
(* A builder holds the vertices in insertion order, each with the          *)
(* dependency keys it was pushed with and its payload.                     *)
(***************************************************************************)
GraphBuilderNew == [keys |-> <<>>, deps |-> EmptyMap, data |-> EmptyMap]

\* GraphBuilder::push: a key already present is an error, the builder unchanged.
GraphBuilderPush(g, key, dep_keys, data) ==
    IF key \in Range(g.keys)
    THEN [ok |-> FALSE, err |-> Error("DuplicateKey", Some(key))]
    ELSE [ok |-> TRUE,
          builder |-> [keys |-> Append(g.keys, key),
                       deps |-> MapInsert(g.deps, key, dep_keys),
                       data |-> MapInsert(g.data, key, data)]]

\* GraphBuilder::finish: edges are resolved now; an edge to a key that was
\* never pushed is left out.
GraphBuilderFinish(g) ==
    [vertices |-> g.keys,
     edges |-> [k \in Range(g.keys) |->
                   SelectSeq(g.deps[k], LAMBDA d : d \in Range(g.keys))],
     data |-> g.data]

VerticesCount(graph) == Len(graph.vertices)

RECURSIVE SumLen(_, _)
SumLen(f, S) ==
    IF S = {} THEN 0
    ELSE LET k == CHOOSE x \in S : TRUE IN Len(f[k]) + SumLen(f, S \ {k})

EdgesCount(graph) == SumLen(graph.edges, DOMAIN graph.edges)

\* The vertices reachable from v over at most `fuel` edges.
RECURSIVE Reach(_, _, _)
Reach(graph, S, fuel) ==
    IF fuel = 0 THEN S
    ELSE Reach(graph, S \cup UNION {Range(graph.edges[v]) : v \in S}, fuel - 1)

GraphHasCycle(graph) ==
    \E v \in Range(graph.vertices) :
        v \in Reach(graph, Range(graph.edges[v]), VerticesCount(graph))

\* potential(v) = weight(v) + the maximum potential of a successor (0 if none).
RECURSIVE Potential(_, _, _)
Potential(graph, weights, v) ==
    LET succ == Range(graph.edges[v])
        best == IF succ = {} THEN 0
                ELSE LET m == CHOOSE x \in succ :
                                \A y \in succ : Potential(graph, weights, y)
                                                  <= Potential(graph, weights, x)
                     IN  Potential(graph, weights, m)
    IN  weights[v] + best

MaxPotential(graph, weights, S) ==
    {v \in S : \A u \in S : Potential(graph, weights, u) <= Potential(graph, weights, v)}

\* The paths that start at v and follow a successor of highest potential.
RECURSIVE FollowPotential(_, _, _)
FollowPotential(graph, weights, v) ==
    LET succ == Range(graph.edges[v])
    IN  IF succ = {} THEN {<<v>>}
        ELSE UNION {{<<v>> \o p : p \in FollowPotential(graph, weights, n)} :
                       n \in MaxPotential(graph, weights, succ)}

\* compute_critical_path_potentials: an error on a cyclic graph, else the
\* critical paths the vertex order can select.
compute_critical_path_potentials(graph, weights) ==
    IF GraphHasCycle(graph) THEN {[ok |-> FALSE, err |-> Error("Cycle", None)]}
    ELSE LET vs == Range(graph.vertices)
             sources == {v \in vs : \A u \in vs : v \notin Range(graph.edges[u])}
         IN  IF vs = {} THEN {[ok |-> TRUE, critical_path |-> <<>>]}
             ELSE {[ok |-> TRUE, critical_path |-> p] :
                      p \in UNION {FollowPotential(graph, weights, s) :
                                      s \in MaxPotential(graph, weights, sources)}}

(***************************************************************************)
(* Longest-path backend (struct LongestPathGraphBackend).                  *)
(***************************************************************************)
NodeData(action, duration) == [action |-> action, duration |-> duration]

LongestPathGraphBackendNew ==
    [kind |-> "LongestPath", builder |-> [ok |-> TRUE, value |-> GraphBuilderNew]]

\* Variant: the error of a failed push is dropped and the builder is kept.
LongestPathProcessNodeDropError(b, key, action, duration, dep_keys) ==
    IF ~b.builder.ok THEN b
    ELSE LET res == GraphBuilderPush(b.builder.value, key, dep_keys,
                                     NodeData(action, duration))
         IN  IF res.ok
             THEN [b EXCEPT !.builder = [ok |-> TRUE, value |-> res.builder]]
             ELSE b

\* Variant: a call on a poisoned backend replaces the stored error by its own.
LongestPathProcessNodeLastError(b, key, action, duration, dep_keys) ==
    IF ~b.builder.ok
    THEN [b EXCEPT !.builder = [ok |-> FALSE,
                                err |-> Error("DuplicateKey", Some(key))]]
    ELSE LET res == GraphBuilderPush(b.builder.value, key, dep_keys,
                                     NodeData(action, duration))
         IN  IF res.ok
             THEN [b EXCEPT !.builder = [ok |-> TRUE, value |-> res.builder]]
             ELSE [b EXCEPT !.builder = [ok |-> FALSE, err |-> res.err]]

\* Variant: the dependency keys are resolved at the push; a key not yet
\* inserted is dropped.
LongestPathProcessNodeResolveAtPush(b, key, action, duration, dep_keys) ==
    IF ~b.builder.ok THEN b
    ELSE LET known == SelectSeq(dep_keys,
                                LAMBDA d : d \in Range(b.builder.value.keys))
             res == GraphBuilderPush(b.builder.value, key, known,
                                     NodeData(action, duration))
         IN  IF res.ok
             THEN [b EXCEPT !.builder = [ok |-> TRUE, value |-> res.builder]]
             ELSE [b EXCEPT !.builder = [ok |-> FALSE, err |-> res.err]]

\* LongestPathGraphBackend::process_node.
LongestPathProcessNode(b, key, action, duration, dep_keys) ==
    IF ~b.builder.ok THEN b
    ELSE LET res == GraphBuilderPush(b.builder.value, key, dep_keys,
                                     NodeData(action, duration))
         IN  IF res.ok
             THEN [b EXCEPT !.builder = [ok |-> TRUE, value |-> res.builder]]
             ELSE [b EXCEPT !.builder = [ok |-> FALSE, err |-> res.err]]

\* d.duration.as_micros().try_into(): fails when the microseconds exceed u64.
\* The range is scaled down to the model's duration unit.
MicrosDurationMax == 500
\* Variant: a duration beyond the range is clamped to the largest value.
DurationAsMicrosU64Clamped(d) ==
    [ok |-> TRUE, value |-> IF d <= MicrosDurationMax THEN d ELSE MicrosDurationMax]
DurationAsMicrosU64(d) == [ok |-> d <= MicrosDurationMax, value |-> d]

\* Variant: the summary counts the vertices and edges of the critical path only.
LongestPathFinishPathCounts(b) ==
    IF ~b.builder.ok THEN {FinishErr(b.builder.err)}
    ELSE LET graph == GraphBuilderFinish(b.builder.value)
             data == graph.data
             vs == Range(graph.vertices)
         IN  IF \E v \in vs : ~DurationAsMicrosU64(data[v].duration).ok
             THEN {FinishErr(Error("DurationAsMicrosExceedsU64", None))}
             ELSE LET durations == [v \in vs |->
                                       DurationAsMicrosU64(data[v].duration).value]
                      one(cp) ==
                          IF ~cp.ok THEN FinishErr(cp.err)
                          ELSE LET kept == SelectSeq(cp.critical_path,
                                               LAMBDA v : IsSome(data[v].action))
                                   pairs == [i \in DOMAIN kept |->
                                                <<Unwrap(data[kept[i]].action),
                                                  data[kept[i]].duration>>]
                                   entries == CollectEntries(pairs)
                               IN  IF entries.ok
                                   THEN FinishOk(BuildInfo(entries.entries,
                                                           Len(cp.critical_path),
                                                           Len(cp.critical_path) - 1))
                                   ELSE FinishErr(entries.err)
                  IN  {one(cp) : cp \in compute_critical_path_potentials(graph, durations)}

\* LongestPathGraphBackend::finish: the set of results it can produce.
LongestPathFinish(b) ==
    IF ~b.builder.ok THEN {FinishErr(b.builder.err)}
    ELSE LET graph == GraphBuilderFinish(b.builder.value)
             data == graph.data
             vs == Range(graph.vertices)
         IN  IF \E v \in vs : ~DurationAsMicrosU64(data[v].duration).ok
             THEN {FinishErr(Error("DurationAsMicrosExceedsU64", None))}
             ELSE LET durations == [v \in vs |->
                                       DurationAsMicrosU64(data[v].duration).value]
                      one(cp) ==
                          IF ~cp.ok THEN FinishErr(cp.err)
                          ELSE LET kept == SelectSeq(cp.critical_path,
                                               LAMBDA v : IsSome(data[v].action))
                                   pairs == [i \in DOMAIN kept |->
                                                <<Unwrap(data[kept[i]].action),
                                                  data[kept[i]].duration>>]
                                   entries == CollectEntries(pairs)
                               IN  IF entries.ok
                                   THEN FinishOk(BuildInfo(entries.entries,
                                                           VerticesCount(graph),
                                                           EdgesCount(graph)))
                                   ELSE FinishErr(entries.err)
                  IN  {one(cp) : cp \in compute_critical_path_potentials(graph, durations)}

(***************************************************************************)
(* trait BuildListenerBackend: dispatch on the backend selected by scope.  *)
(***************************************************************************)
process_node(b, key, value, duration, dep_keys) ==
    IF b.kind = "Default"
    THEN DefaultProcessNode(b, key, value, duration, dep_keys)
    ELSE LongestPathProcessNode(b, key, value, duration, dep_keys)

finish(b) ==
    IF b.kind = "Default" THEN DefaultFinish(b) ELSE LongestPathFinish(b)

(***************************************************************************)
(* Signals (enum BuildSignal).                                             *)
(***************************************************************************)
ActionExecutionSignal(action, duration) ==
    [signal |-> "ActionExecution", action |-> action, duration |-> duration]
TransitiveSetComputationSignal(key, artifacts, set_deps) ==
    [signal |-> "TransitiveSetComputation", key |-> key,
     artifacts |-> artifacts, set_deps |-> set_deps]
ActionRedirectionSignal(key, dest) ==
    [signal |-> "ActionRedirection", key |-> key, dest |-> dest]
BuildFinished == [signal |-> "BuildFinished"]

(***************************************************************************)
(* The build the producers report on: two actions, a projection, a         *)
(* deferred action redirected to action 2, and an action whose inputs()    *)
(* fails.  The dependency relation is acyclic, as in every build graph.    *)
(***************************************************************************)
Action1 == RegisteredAction(1, Some("id1"), InputsOk(<<Artifact(None)>>))
Action2 == RegisteredAction(2, None,
               InputsOk(<<Artifact(Some(1)), TSetGroup(1), Artifact(None),
                          Artifact(Some(1))>>))
Action3 == RegisteredAction(3, None, InputsErr)

Producers == {"p1", "p2"}

\* The signals each producer may send, in any order and any number of times.
SignalsOf(p) ==
    IF p = "p1"
    THEN {ActionExecutionSignal(Action1, 2),
          TransitiveSetComputationSignal(1, {1}, {}),
          ActionExecutionSignal(Action3, 1),
          BuildFinished}
    ELSE {ActionExecutionSignal(Action2, 3),
          ActionRedirectionSignal(4, 2)}

\* Result<Option<bool>> of reading BUCK2_USE_LONGEST_PATH_GRAPH.
EnvValues ==
    {[ok |-> TRUE, value |-> None], [ok |-> TRUE, value |-> Some(FALSE)],
     [ok |-> TRUE, value |-> Some(TRUE)], [ok |-> FALSE, value |-> None]}

\* The results the caller's work can return.
WorkResults == {Ok("R"), Err(Error("WorkError", None))}

(***************************************************************************)
(* State.                                                                  *)
(***************************************************************************)
VARIABLES
    scope_pc,           \* position of scope(): start, work, signal_finished,
                        \*   join, returned, cancelled
    scope_result,       \* Option of scope's return value
    work_result,        \* Option of the result of func(sender).await
    func_calls,         \* number of times scope invoked func
    queue,              \* the unbounded channel, oldest first
    receiver_alive,     \* the UnboundedReceiver exists and is not dropped
    senders,            \* who holds a live BuildSignalSender handle
    consumer_pc,        \* position of run_and_log: none, recv, finish, done
    consumer_result,    \* Option of the consumer task's anyhow::Result<()>
    backend,            \* the backend owned by the BuildSignalReceiver
    emitted,            \* BuildGraphExecutionInfo events given to instant_event
    sends,              \* signal() calls made by producers so far
    signal_ret,         \* what the last signal() call returned to its caller
    sent,               \* history: every signal the channel accepted, in order
    psent,              \* history: per handle holder, the signals accepted
    applied,            \* history: the process_node calls, in order
    dequeued,           \* history: number of signals receiver.next() yielded
    finish_calls,       \* history: number of backend.finish() calls
    terminations,       \* history: number of times run_and_log returned
    scope_finished_sends, \* history: signal(BuildFinished) calls made by scope
    driver,             \* history kept by a direct driver of a backend
    extract_input,      \* the predecessor map handed to extract_critical_path
    extracted           \* Option of what extract_critical_path returned for it

vars == <<scope_pc, scope_result, work_result, func_calls, queue,
          receiver_alive, senders, consumer_pc, consumer_result, backend,
          emitted, sends, signal_ret, sent, psent, applied, dequeued,
          finish_calls, terminations, scope_finished_sends, driver,
          extract_input, extracted>>

scope_vars == <<scope_pc, scope_result, work_result, func_calls>>
consumer_vars == <<consumer_pc, consumer_result, backend, emitted, applied,
                   dequeued, finish_calls, terminations, receiver_alive>>
channel_vars == <<queue, sent, psent, signal_ret>>
bench_vars == <<driver, extract_input, extracted>>

Holders == Producers \cup {"scope"}

NoBackend == [kind |-> "None"]

Init ==
    /\ scope_pc = "start"
    /\ scope_result = None
    /\ work_result = None
    /\ func_calls = 0
    /\ queue = <<>>
    /\ receiver_alive = FALSE
    /\ senders = {}
    /\ consumer_pc = "none"
    /\ consumer_result = None
    /\ backend = NoBackend
    /\ emitted = <<>>
    /\ sends = 0
    /\ signal_ret = None
    /\ sent = <<>>
    /\ psent = [h \in Holders |-> <<>>]
    /\ applied = <<>>
    /\ dequeued = 0
    /\ finish_calls = 0
    /\ terminations = 0
    /\ scope_finished_sends = 0
    /\ driver = None
    /\ extract_input = EmptyMap
    /\ extracted = None

(***************************************************************************)
(* Signal dispatcher (impl BuildSignalReceiver).  A call is the argument   *)
(* list of one backend.process_node invocation.                            *)
(***************************************************************************)
Call(key, value, duration, dep_keys) ==
    [key |-> key, value |-> value, duration |-> duration, dep_keys |-> dep_keys]

ApplyCall(b, c) == process_node(b, c.key, c.value, c.duration, c.dep_keys)

\* The filter_map of process_action: one key per artifact that has a producing
\* action and per projection; a source artifact gives none.
RECURSIVE DepKeysOfInputs(_)
DepKeysOfInputs(groups) ==
    IF groups = <<>> THEN <<>>
    ELSE LET dep == Head(groups)
             this == IF dep.group = "Artifact"
                     THEN IF IsSome(dep.action_key)
                          THEN <<ActionKey(Unwrap(dep.action_key))>>
                          ELSE <<>>
                     ELSE <<TransitiveSetProjection(dep.key)>>
         IN  this \o DepKeysOfInputs(Tail(groups))

\* process_action: Err when action.inputs() fails, before any backend call.
process_action(b, execution) ==
    IF ~execution.action.inputs.ok
    THEN {[ok |-> FALSE, err |-> Error("InputsError", Some(execution.action.key)),
           backend |-> b, calls |-> <<>>]}
    ELSE LET c == Call(ActionKey(execution.action.key), Some(execution.action),
                       execution.duration,
                       DepKeysOfInputs(execution.action.inputs.groups))
         IN  {[ok |-> TRUE, err |-> None, backend |-> ApplyCall(b, c), calls |-> <<c>>]}

\* Variant: the node is put at the destination key with an edge to the
\* redirected key.
process_action_redirectionSwapped(b, redirection) ==
    LET c == Call(ActionKey(redirection.dest), None, 0,
                  <<ActionKey(redirection.key)>>)
    IN  {[ok |-> TRUE, err |-> None, backend |-> ApplyCall(b, c), calls |-> <<c>>]}

\* process_action_redirection.
process_action_redirection(b, redirection) ==
    LET c == Call(ActionKey(redirection.key), None, 0,
                  <<ActionKey(redirection.dest)>>)
    IN  {[ok |-> TRUE, err |-> None, backend |-> ApplyCall(b, c), calls |-> <<c>>]}

\* process_transitive_set_computation: artifacts.chain(sets), each HashSet in
\* any of its iteration orders.
process_transitive_set_computation(b, set) ==
    {LET c == Call(TransitiveSetProjection(set.key), None, 0,
                   [i \in DOMAIN a |-> ActionKey(a[i])]
                       \o [i \in DOMAIN d |-> TransitiveSetProjection(d[i])])
     IN  [ok |-> TRUE, err |-> None, backend |-> ApplyCall(b, c), calls |-> <<c>>] :
        a \in Enumerations(set.artifacts), d \in Enumerations(set.set_deps)}

\* Variant: BuildFinished does not leave the loop.
RunAndLogEventNoBreak(b, event) ==
    IF event.signal = "BuildFinished"
    THEN {[pc |-> "recv", result |-> None, backend |-> b, calls |-> <<>>]}
    ELSE LET outs == IF event.signal = "ActionExecution"
                     THEN process_action(b, event)
                     ELSE IF event.signal = "TransitiveSetComputation"
                          THEN process_transitive_set_computation(b, event)
                          ELSE process_action_redirection(b, event)
         IN  {IF o.ok
              THEN [pc |-> "recv", result |-> None,
                    backend |-> o.backend, calls |-> o.calls]
              ELSE [pc |-> "done", result |-> Some(Err(o.err)),
                    backend |-> o.backend, calls |-> o.calls] : o \in outs}

\* Variant: a processing error is dropped and the loop goes on.
RunAndLogEventSwallowError(b, event) ==
    IF event.signal = "BuildFinished"
    THEN {[pc |-> "finish", result |-> None, backend |-> b, calls |-> <<>>]}
    ELSE LET outs == IF event.signal = "ActionExecution"
                     THEN process_action(b, event)
                     ELSE IF event.signal = "TransitiveSetComputation"
                          THEN process_transitive_set_computation(b, event)
                          ELSE process_action_redirection(b, event)
         IN  {[pc |-> "recv", result |-> None,
               backend |-> o.backend, calls |-> o.calls] : o \in outs}

\* One turn of the while-let loop of run_and_log on a received event: the
\* outcomes [pc, result, backend, calls]; pc is where run_and_log goes next.
RunAndLogEvent(b, event) ==
    IF event.signal = "BuildFinished"
    THEN {[pc |-> "finish", result |-> None, backend |-> b, calls |-> <<>>]}
    ELSE LET outs == IF event.signal = "ActionExecution"
                     THEN process_action(b, event)
                     ELSE IF event.signal = "TransitiveSetComputation"
                          THEN process_transitive_set_computation(b, event)
                          ELSE process_action_redirection(b, event)
         IN  {IF o.ok
              THEN [pc |-> "recv", result |-> None,
                    backend |-> o.backend, calls |-> o.calls]
              ELSE [pc |-> "done", result |-> Some(Err(o.err)),
                    backend |-> o.backend, calls |-> o.calls] : o \in outs}

\* The tail of run_and_log: backend.finish()?, instant_event, Ok(()).
RunAndLogFinish(b) ==
    {IF r.ok
     THEN [result |-> Ok("()"),
           events |-> <<[critical_path |-> r.info.critical_path,
                         critical_path2 |-> <<>>,
                         num_nodes |-> r.info.num_nodes,
                         num_edges |-> r.info.num_edges,
                         uses_total_duration |-> FALSE]>>]
     ELSE [result |-> Err(r.err), events |-> <<>>] : r \in finish(b)}

(***************************************************************************)
(* Channel.                                                                *)
(***************************************************************************)
\* Variant: the newest signal is put at the front of the queue.
ChannelSendFront(q, alive, item) ==
    IF alive THEN [ok |-> TRUE, queue |-> <<item>> \o q]
    ELSE [ok |-> FALSE, queue |-> q]

\* UnboundedSender::send: enqueues unless the receiver is gone.
ChannelSend(q, alive, item) ==
    IF alive THEN [ok |-> TRUE, queue |-> Append(q, item)]
    ELSE [ok |-> FALSE, queue |-> q]

\* Variant: the send error is handed to the caller.
signalReportsSendError(q, alive, item) ==
    LET sent_result == IF alive THEN [ok |-> TRUE, queue |-> Append(q, item)]
                       ELSE [ok |-> FALSE, queue |-> q]
    IN  [queue |-> sent_result.queue, accepted |-> sent_result.ok,
         ret |-> IF sent_result.ok THEN "()" ELSE "SendError"]

\* BuildSignalSender::signal: the send result is dropped, () is returned.
signal(q, alive, item) ==
    LET sent_result == ChannelSend(q, alive, item)
    IN  [queue |-> sent_result.queue, accepted |-> sent_result.ok, ret |-> "()"]

\* `from` calls signal(sig) on its handle.
DoSignal(from, sig) ==
    LET item == [from |-> from, seq |-> Len(sent) + 1, signal |-> sig]
        r == signal(queue, receiver_alive, item)
    IN  /\ queue' = r.queue
        /\ signal_ret' = Some(r.ret)
        /\ sent' = IF r.accepted THEN Append(sent, item) ELSE sent
        /\ psent' = IF r.accepted THEN [psent EXCEPT ![from] = Append(@, sig)]
                    ELSE psent

(***************************************************************************)
(* scope().                                                                *)
(***************************************************************************)
\* start_listener: the channel, the sender and the spawned consumer task.
StartListener(new_backend) ==
    /\ queue' = <<>>
    /\ receiver_alive' = TRUE
    /\ backend' = new_backend
    /\ consumer_pc' = "recv"

\* Variant: an unset switch selects the longest-path backend.
use_longest_path_graphDefaultTrue(env) ==
    IF IsSome(env.value) THEN Unwrap(env.value) ELSE TRUE

\* get_copied()?.unwrap_or_default() on a switch that could be read: an unset
\* switch is false.
use_longest_path_graph(env) ==
    IF IsSome(env.value) THEN Unwrap(env.value) ELSE FALSE

\* scope up to the call of func: reads the switch, found to be `env` (an
\* unreadable switch returns the error at once), starts the listener on the
\* selected backend and calls func(sender.dupe()), which hands the sender to
\* the producers.
ScopeStart(env) ==
    /\ scope_pc = "start"
    /\ IF ~env.ok
       THEN /\ scope_pc' = "returned"
            /\ scope_result' = Some(Err(Error("EnvError", None)))
            /\ UNCHANGED <<func_calls, queue, receiver_alive, backend,
                           consumer_pc, senders>>
       ELSE /\ StartListener(IF use_longest_path_graph(env)
                             THEN LongestPathGraphBackendNew
                             ELSE DefaultBackendNew)
            /\ func_calls' = func_calls + 1
            /\ senders' = Holders
            /\ scope_pc' = "work"
            /\ UNCHANGED scope_result
    /\ UNCHANGED <<work_result, consumer_result, emitted, sends, signal_ret,
                   sent, psent, applied, dequeued, finish_calls, terminations,
                   scope_finished_sends>>
    /\ UNCHANGED bench_vars

\* func(sender).await completes with r.
WorkComplete(r) ==
    /\ scope_pc = "work"
    /\ work_result' = Some(r)
    /\ scope_pc' = "signal_finished"
    /\ UNCHANGED <<scope_result, func_calls, senders, sends>>
    /\ UNCHANGED consumer_vars
    /\ UNCHANGED channel_vars
    /\ UNCHANGED scope_finished_sends
    /\ UNCHANGED bench_vars

\* Variant: a failed work returns from scope at once (`func(..).await?`).
ScopeSignalFinishedUnlessError ==
    /\ scope_pc = "signal_finished"
    /\ IF Unwrap(work_result).ok
       THEN /\ DoSignal("scope", BuildFinished)
            /\ scope_finished_sends' = scope_finished_sends + 1
            /\ scope_pc' = "join"
            /\ UNCHANGED <<scope_result, senders>>
       ELSE /\ scope_pc' = "returned"
            /\ scope_result' = work_result
            /\ senders' = senders \ {"scope"}
            /\ UNCHANGED <<queue, signal_ret, sent, psent, scope_finished_sends>>
    /\ UNCHANGED <<work_result, func_calls, sends>>
    /\ UNCHANGED consumer_vars
    /\ UNCHANGED bench_vars

\* sender.signal(BuildSignal::BuildFinished).
ScopeSignalFinished ==
    /\ scope_pc = "signal_finished"
    /\ DoSignal("scope", BuildFinished)
    /\ scope_finished_sends' = scope_finished_sends + 1
    /\ scope_pc' = "join"
    /\ UNCHANGED <<scope_result, work_result, func_calls, senders, sends>>
    /\ UNCHANGED consumer_vars
    /\ UNCHANGED bench_vars

\* Variant: the work's error is looked at first (`result?` before the join).
ScopeReturnValueWorkFirst(task_result, result) ==
    IF ~result.ok THEN result
    ELSE IF ~task_result.ok THEN Err(Unwrap(task_result.err)) ELSE result

\* What `handle.await??; result` evaluates to.
ScopeReturnValue(task_result, result) ==
    IF ~task_result.ok THEN Err(Unwrap(task_result.err)) ELSE result

\* handle.await??; result -- enabled once the consumer task has returned.
ScopeJoin ==
    /\ scope_pc = "join"
    /\ consumer_pc = "done"
    /\ scope_result' = Some(ScopeReturnValue(Unwrap(consumer_result),
                                             Unwrap(work_result)))
    /\ scope_pc' = "returned"
    /\ senders' = senders \ {"scope"}
    /\ UNCHANGED <<work_result, func_calls, sends>>
    /\ UNCHANGED consumer_vars
    /\ UNCHANGED channel_vars
    /\ UNCHANGED scope_finished_sends
    /\ UNCHANGED bench_vars

\* The scope future is dropped at one of its two await points: its locals
\* (the sender, the JoinHandle) are dropped, the spawned task is detached.
ScopeCancel ==
    /\ scope_pc \in {"work", "join"}
    /\ scope_pc' = "cancelled"
    /\ senders' = senders \ {"scope"}
    /\ UNCHANGED <<scope_result, work_result, func_calls, sends>>
    /\ UNCHANGED consumer_vars
    /\ UNCHANGED channel_vars
    /\ UNCHANGED scope_finished_sends
    /\ UNCHANGED bench_vars

(***************************************************************************)
(* Producers.                                                              *)
(***************************************************************************)
\* A producer calls signal(sig) on its handle.
ProducerSignal(p, sig) ==
    /\ p \in senders
    /\ sends < MaxSends
    /\ DoSignal(p, sig)
    /\ sends' = sends + 1
    /\ UNCHANGED <<senders, scope_finished_sends>>
    /\ UNCHANGED scope_vars
    /\ UNCHANGED consumer_vars
    /\ UNCHANGED bench_vars

\* A producer drops its handle.  While scope holds its own handle the channel
\* stays open whatever the producers do, so drops are taken after scope ended.
ProducerDrop(p) ==
    /\ p \in senders
    /\ scope_pc \in {"returned", "cancelled"}
    /\ senders' = senders \ {p}
    /\ UNCHANGED <<sends, scope_finished_sends>>
    /\ UNCHANGED scope_vars
    /\ UNCHANGED consumer_vars
    /\ UNCHANGED channel_vars
    /\ UNCHANGED bench_vars

(***************************************************************************)
(* The consumer task (run_and_log).                                        *)
(***************************************************************************)
\* run_and_log returns `result`: the receiver is dropped with the task, and
\* the signals still queued with it.
ConsumerReturn(result) ==
    /\ consumer_result' = Some(result)
    /\ consumer_pc' = "done"
    /\ receiver_alive' = FALSE
    /\ queue' = <<>>
    /\ terminations' = terminations + 1

\* receiver.next() yields the oldest signal and the loop body runs on it.
ConsumerRecv ==
    /\ consumer_pc = "recv"
    /\ queue # <<>>
    /\ LET item == Head(queue)
       IN  \E o \in RunAndLogEvent(backend, item.signal) :
              /\ dequeued' = dequeued + 1
              /\ backend' = o.backend
              /\ applied' = applied \o [i \in DOMAIN o.calls |->
                                           [from |-> item.from, seq |-> item.seq,
                                            call |-> o.calls[i]]]
              /\ IF o.pc = "done"
                 THEN ConsumerReturn(Unwrap(o.result))
                 ELSE /\ consumer_pc' = o.pc
                      /\ queue' = Tail(queue)
                      /\ UNCHANGED <<consumer_result, receiver_alive, terminations>>
    /\ UNCHANGED <<senders, sends, signal_ret, sent, psent, emitted,
                   finish_calls, scope_finished_sends>>
    /\ UNCHANGED scope_vars
    /\ UNCHANGED bench_vars

\* receiver.next() yields None: the queue is empty and every sender is gone.
ConsumerClosed ==
    /\ consumer_pc = "recv"
    /\ queue = <<>>
    /\ senders = {}
    /\ consumer_pc' = "finish"
    /\ UNCHANGED <<senders, sends, consumer_result, backend, emitted,
                   applied, dequeued, finish_calls, terminations,
                   receiver_alive, scope_finished_sends>>
    /\ UNCHANGED scope_vars
    /\ UNCHANGED channel_vars
    /\ UNCHANGED bench_vars

\* After the loop: backend.finish()?, instant_event(...), Ok(()).
ConsumerFinish ==
    /\ consumer_pc = "finish"
    /\ \E f \in RunAndLogFinish(backend) :
          /\ emitted' = emitted \o f.events
          /\ ConsumerReturn(f.result)
    /\ finish_calls' = finish_calls + 1
    /\ UNCHANGED <<senders, sends, backend, applied, dequeued, signal_ret, sent,
                   psent, scope_finished_sends>>
    /\ UNCHANGED scope_vars
    /\ UNCHANGED bench_vars

(***************************************************************************)
(* Specifications.                                                         *)
(***************************************************************************)
Next ==
    \/ \E env \in EnvValues : ScopeStart(env)
    \/ \E r \in WorkResults : WorkComplete(r)
    \/ ScopeSignalFinished
    \/ ScopeJoin
    \/ ScopeCancel
    \/ \E p \in Producers : \E sig \in SignalsOf(p) : ProducerSignal(p, sig)
    \/ \E p \in Producers : ProducerDrop(p)
    \/ ConsumerRecv
    \/ ConsumerClosed
    \/ ConsumerFinish

Spec == Init /\ [][Next]_vars

\* The runtime keeps polling a spawned task that can run, and scope itself is
\* driven by its caller as long as it is not dropped.
FairSpec ==
    /\ Spec
    /\ WF_vars(ConsumerRecv)
    /\ WF_vars(ConsumerClosed)
    /\ WF_vars(ConsumerFinish)
    /\ WF_vars(ScopeSignalFinished)
    /\ WF_vars(ScopeJoin)

(***************************************************************************)
(* Helpers for the properties.                                             *)
(***************************************************************************)
IsFinished(item) == item.signal = BuildFinished

\* Position of the first BuildFinished in a history, Len + 1 when it has none.
FirstFinished(h) ==
    IF \E i \in DOMAIN h : IsFinished(h[i])
    THEN CHOOSE i \in DOMAIN h : IsFinished(h[i]) /\ \A j \in 1..(i - 1) : ~IsFinished(h[j])
    ELSE Len(h) + 1

\* The signal is one whose processing fails: an executed action whose
\* inputs cannot be resolved.
ProcessingFails(item) ==
    /\ item.signal.signal = "ActionExecution"
    /\ ~item.signal.action.inputs.ok

\* The process_node calls a signal translates into (none for BuildFinished
\* and for a signal whose processing fails).
CallsOf(item) ==
    LET event == item.signal
    IN  IF event.signal = "BuildFinished" THEN {<<>>}
        ELSE {o.calls :
                 o \in IF event.signal = "ActionExecution"
                       THEN process_action(DefaultBackendNew, event)
                       ELSE IF event.signal = "TransitiveSetComputation"
                            THEN process_transitive_set_computation(DefaultBackendNew,
                                                                    event)
                            ELSE process_action_redirection(DefaultBackendNew, event)}

\* The backend that results from the given process_node calls, oldest first.
RECURSIVE Replay(_, _)
Replay(b, calls) ==
    IF calls = <<>> THEN b ELSE Replay(ApplyCall(b, Head(calls).call), Tail(calls))

FreshBackend == IF backend.kind = "LongestPath" THEN LongestPathGraphBackendNew
                ELSE DefaultBackendNew

ListenerStarted == consumer_pc # "none"

WorkDone == work_result # None

ConsumerFailed == consumer_result # None /\ ~Unwrap(consumer_result).ok

\* The consumer has left its loop (or returned).
ConsumerStopped == consumer_pc \in {"finish", "done"}

\* A BuildFinished is among the signals the consumer has received.
FinishedReceived == \E i \in 1..dequeued : IsFinished(sent[i])

(***************************************************************************)
(* C1.  Whether the work returns success or an error, scope calls          *)
(* signal(BuildFinished) exactly once, after the work has completed, and   *)
(* returns only when the consumer task has terminated.                     *)
(***************************************************************************)
C1_ScopeFinishesAndJoins ==
    /\ scope_finished_sends <= 1
    /\ scope_finished_sends = 1 => WorkDone
    /\ (WorkDone /\ scope_pc \in {"join", "returned"}) => scope_finished_sends = 1
    /\ (scope_pc = "returned" /\ ListenerStarted) =>
           /\ WorkDone
           /\ scope_finished_sends = 1
           /\ consumer_pc = "done"
           /\ terminations = 1

C1_Witness ==
    /\ scope_pc = "returned"
    /\ WorkDone /\ ~Unwrap(work_result).ok
    /\ scope_finished_sends = 1
    /\ consumer_pc = "done"

(***************************************************************************)
(* C2.  If the scope future is dropped while the work is still running,    *)
(* scope has nevertheless sent the terminal BuildFinished signal.          *)
(***************************************************************************)
C2_CancelledScopeSentFinished ==
    (scope_pc = "cancelled" /\ ~WorkDone) => scope_finished_sends = 1

C4_WorkErrorPropagated ==
    (scope_pc = "returned" /\ WorkDone /\ ~Unwrap(work_result).ok) =>
        scope_result = work_result

(***************************************************************************)
(* C5.  When scope returns: if the consumer task ended with an error that  *)
(* error is scope's result, otherwise scope's result is the work's result. *)
(***************************************************************************)
C5_ScopeResult ==
    (scope_pc = "returned" /\ ListenerStarted) =>
        IF ConsumerFailed
        THEN /\ ~Unwrap(scope_result).ok
             /\ Unwrap(scope_result).err = Unwrap(consumer_result).err
        ELSE scope_result = work_result

\* scope returned the consumer's finalization error although the work succeeded.
C5_Witness ==
    /\ scope_pc = "returned"
    /\ finish_calls = 1
    /\ ConsumerFailed
    /\ Unwrap(work_result).ok
    /\ ~Unwrap(scope_result).ok

(***************************************************************************)
(* C6.  signal() never blocks and never reports failure: a producer that   *)
(* holds a handle can always send, whatever the state of the channel and   *)
(* of the consumer, and the call returns ().  Once the consumer has        *)
(* stopped (left its loop, or returned) no send changes the backend or     *)
(* the emitted summary.                                                    *)
(***************************************************************************)
C6_SignalNeverFails ==
    /\ [](signal_ret \in {None, Some("()")})
    /\ [](\A p \in Producers \cap senders :
             sends < MaxSends =>
                 \A sig \in SignalsOf(p) : ENABLED ProducerSignal(p, sig))
    /\ [][(ConsumerStopped /\ sends' # sends) =>
              /\ backend' = backend
              /\ applied' = applied
              /\ emitted' = emitted
              /\ consumer_result' = consumer_result]_vars
    /\ [][consumer_pc = "done" =>
              /\ backend' = backend
              /\ applied' = applied
              /\ emitted' = emitted]_vars

\* Producers called signal() more often than the channel accepted: a send
\* hit the dropped receiver after the consumer had returned.
C6_Witness ==
    /\ consumer_pc = "done"
    /\ sends > Len(psent["p1"]) + Len(psent["p2"])
    /\ signal_ret = Some("()")

(***************************************************************************)
(* Histories of signals and of process_node calls.                         *)
(***************************************************************************)
\* The signals of history h that precede its first BuildFinished.
BeforeFinished(h) == SubSeq(h, 1, FirstFinished(h) - 1)

\* Position of the first signal of h whose processing fails, Len + 1 if none.
FirstFailing(h) ==
    IF \E i \in DOMAIN h : ProcessingFails(h[i])
    THEN CHOOSE i \in DOMAIN h :
             ProcessingFails(h[i]) /\ \A j \in 1..(i - 1) : ~ProcessingFails(h[j])
    ELSE Len(h) + 1

\* The signals that precede the first BuildFinished and the first failure.
BeforeStop(h) == SubSeq(BeforeFinished(h), 1, FirstFailing(BeforeFinished(h)) - 1)

\* The entries of a history that come from holder p, in order.
From(h, p) == SelectSeq(h, LAMBDA x : x.from = p)

\* Entry by entry, `calls` are the translations of the first signals of `sigs`.
AppliedMatches(calls, sigs) ==
    /\ Len(calls) <= Len(sigs)
    /\ \A i \in DOMAIN calls :
          /\ calls[i].from = sigs[i].from
          /\ calls[i].seq = sigs[i].seq
          /\ <<calls[i].call>> \in CallsOf(sigs[i])

(***************************************************************************)
(* C7 as stated.  When the consumer has terminated, every signal enqueued  *)
(* before the first BuildFinished has been applied to the backend exactly  *)
(* once, in enqueue order.                                                 *)
(***************************************************************************)
C7_AllBeforeFinishedApplied ==
    consumer_pc = "done" =>
        /\ AppliedMatches(applied, BeforeFinished(sent))
        /\ Len(applied) = Len(BeforeFinished(sent))

(***************************************************************************)
(* C7 amended.  The signals enqueued before the first BuildFinished and    *)
(* before the first signal whose processing fails are applied to the       *)
(* backend exactly once each, one per consumer step, in channel enqueue    *)
(* order, which keeps every producer's own send order; all of them once    *)
(* the consumer has terminated.                                            *)
(***************************************************************************)
C7_AppliedInOrder ==
    /\ [](AppliedMatches(applied, BeforeStop(sent)))
    /\ [](consumer_pc = "done" => Len(applied) = Len(BeforeStop(sent)))
    /\ [](\A p \in Producers :
             LET mine == From(applied, p)
                 sigs == [i \in DOMAIN psent[p] |-> [signal |-> psent[p][i]]]
             IN  /\ Len(mine) <= Len(sigs)
                 /\ \A i \in DOMAIN mine : <<mine[i].call>> \in CallsOf(sigs[i]))
    /\ [][Len(applied') <= Len(applied) + 1]_vars

\* Both producers' signals were applied, interleaved, the consumer finished.
C7_Witness ==
    /\ consumer_pc = "done"
    /\ Len(applied) = 2
    /\ applied[1].from = "p2"
    /\ applied[2].from = "p1"
    /\ ~ConsumerFailed

(***************************************************************************)
(* C8.  Per build the consumer task terminates at most once, the backend   *)
(* is finalized at most once and only when a BuildFinished signal has been *)
(* received, at most one summary is emitted, and exactly one when the      *)
(* consumer ended without an error.                                        *)
(***************************************************************************)
C8_FinalizedOnceOnFinished ==
    /\ terminations <= 1
    /\ (consumer_pc = "done") <=> (terminations = 1)
    /\ finish_calls <= 1
    /\ finish_calls = 1 => FinishedReceived
    /\ Len(emitted) <= 1
    /\ (consumer_pc = "done" /\ ~ConsumerFailed) => Len(emitted) = 1

(***************************************************************************)
(* C9.  A signal behind the first BuildFinished of the channel is never    *)
(* applied to the backend: once BuildFinished has been received nothing    *)
(* more is dequeued, and the emitted summary is a summary of the backend   *)
(* built from the calls made for the signals dequeued before it.           *)
(***************************************************************************)
C9_NothingBehindFinishedApplied ==
    /\ dequeued <= FirstFinished(sent)
    /\ \A i \in DOMAIN applied : applied[i].seq < FirstFinished(sent)
    /\ ListenerStarted => backend = Replay(FreshBackend, applied)
    /\ \A i \in DOMAIN emitted :
          \E f \in RunAndLogFinish(Replay(FreshBackend, applied)) :
              f.events = <<emitted[i]>>

\* A summary was emitted while a producer's signal, accepted behind the
\* first BuildFinished, was left unprocessed.
C9_Witness ==
    /\ Len(emitted) = 1
    /\ \E i \in DOMAIN sent : i > FirstFinished(sent) /\ ~IsFinished(sent[i])
    /\ applied # <<>>

(***************************************************************************)
(* C10.  When processing a dequeued signal fails, the loop aborts at once: *)
(* that signal is the last one dequeued, no call is made for it or for a   *)
(* later signal, finish is not called, no summary is emitted, and the      *)
(* error is the consumer task's result.                                    *)
(***************************************************************************)
C10_ProcessingErrorAborts ==
    \A i \in 1..dequeued :
        ProcessingFails(sent[i]) =>
            /\ i = dequeued
            /\ consumer_pc = "done"
            /\ consumer_result =
                   Some(Err(Error("InputsError", Some(sent[i].signal.action.key))))
            /\ \A j \in DOMAIN applied : applied[j].seq < i
            /\ finish_calls = 0
            /\ emitted = <<>>

\* The consumer aborted on the second signal, after applying the first, and
\* left a later signal unprocessed.
C10_Witness ==
    /\ dequeued = 2
    /\ ProcessingFails(sent[2])
    /\ Len(applied) = 1
    /\ Len(sent) > 2
    /\ consumer_pc = "done"

(***************************************************************************)
(* A backend driven directly.  The consumer of run_and_log is started on a *)
(* backend and process_node is called on it with calls the dispatcher can  *)
(* make, in any order; then the loop is left and finish runs.              *)
(***************************************************************************)
MaxCalls == 3

BenchKeys == {ActionKey(1), ActionKey(2), ActionKey(3)}

BenchAction(key) == RegisteredAction(key.id, None, InputsOk(<<>>))

\* Dependency sequences: up to two distinct keys other than the node's own,
\* and two keys with the first named again (an action consuming two
\* artifacts of the same producer).
BenchDeps(key) ==
    LET others == BenchKeys \ {key}
        pairs == {p \in others \X others : p[1] # p[2]}
    IN  {<<>>} \cup {<<a>> : a \in others}
               \cup pairs
               \cup {<<p[1], p[2], p[1]>> : p \in {q \in pairs : q[1].id < q[2].id}}

\* What process_action makes of an executed action, and what
\* process_action_redirection makes of a redirection.
BenchCalls(durations) ==
    UNION {{Call(k, Some(BenchAction(k)), d, deps) :
               d \in durations, deps \in BenchDeps(k)} : k \in BenchKeys}
    \cup {Call(p[1], None, 0, <<p[2]>>) :
             p \in {q \in BenchKeys \X BenchKeys : q[1] # q[2]}}

DefaultBenchCalls == BenchCalls({0, 1})

\* The longest-path backend also gets actions whose duration is beyond the
\* microsecond range.
LongestPathBenchCalls ==
    BenchCalls({1, 2})
    \cup {Call(k, Some(BenchAction(k)), MicrosDurationMax + 1, <<>>) : k \in BenchKeys}

\* What the driver remembers of its calls: how many, how many distinct
\* dependency keys they named in total, the latest call per key, whether
\* every key was called once only, whether every call came after the calls
\* for all of its dependencies, and the call made last.
DriverNew ==
    [calls |-> 0, edges |-> 0, graph |-> EmptyMap, once |-> TRUE,
     in_order |-> TRUE, last |-> None]

DriverRecord(d, c) ==
    [calls |-> d.calls + 1,
     edges |-> d.edges + Cardinality(Range(c.dep_keys)),
     graph |-> MapInsert(d.graph, c.key, c),
     once |-> d.once /\ c.key \notin DOMAIN d.graph,
     in_order |-> d.in_order /\ Range(c.dep_keys) \subseteq DOMAIN d.graph,
     last |-> Some(c)]

\* BuildSignalReceiver::new(receiver, backend), about to enter run_and_log.
DriverInit(new_backend) ==
    /\ scope_pc = "none"
    /\ scope_result = None
    /\ work_result = None
    /\ func_calls = 0
    /\ queue = <<>>
    /\ receiver_alive = TRUE
    /\ senders = {}
    /\ consumer_pc = "recv"
    /\ consumer_result = None
    /\ backend = new_backend
    /\ emitted = <<>>
    /\ sends = 0
    /\ signal_ret = None
    /\ sent = <<>>
    /\ psent = [p \in Producers |-> <<>>]
    /\ applied = <<>>
    /\ dequeued = 0
    /\ finish_calls = 0
    /\ terminations = 0
    /\ scope_finished_sends = 0
    /\ driver = DriverNew
    /\ extract_input = EmptyMap
    /\ extracted = None

\* One backend.process_node call, as the loop body makes it.
DriverProcessNode(c) ==
    /\ consumer_pc = "recv"
    /\ driver.calls < MaxCalls
    /\ backend' = ApplyCall(backend, c)
    /\ driver' = DriverRecord(driver, c)
    /\ UNCHANGED <<consumer_pc, consumer_result, emitted, applied, dequeued,
                   finish_calls, terminations, receiver_alive, senders, sends,
                   scope_finished_sends, extract_input, extracted>>
    /\ UNCHANGED scope_vars
    /\ UNCHANGED channel_vars

\* BuildFinished ends the loop: backend.finish()?, instant_event(...), Ok(()).
DriverFinish ==
    /\ consumer_pc = "recv"
    /\ \E f \in RunAndLogFinish(backend) :
          /\ emitted' = emitted \o f.events
          /\ ConsumerReturn(f.result)
    /\ finish_calls' = finish_calls + 1
    /\ UNCHANGED <<senders, sends, backend, applied, dequeued, signal_ret, sent,
                   psent, scope_finished_sends>>
    /\ UNCHANGED scope_vars
    /\ UNCHANGED bench_vars

DefaultBackendInit == DriverInit(DefaultBackendNew)

DefaultBackendNext ==
    \/ \E c \in DefaultBenchCalls : DriverProcessNode(c)
    \/ DriverFinish

DefaultBackendSpec == DefaultBackendInit /\ [][DefaultBackendNext]_vars

LongestPathBackendInit == DriverInit(LongestPathGraphBackendNew)

LongestPathBackendNext ==
    \/ \E c \in LongestPathBenchCalls : DriverProcessNode(c)
    \/ DriverFinish

LongestPathBackendSpec == LongestPathBackendInit /\ [][LongestPathBackendNext]_vars

(***************************************************************************)
(* Longest-path backend inside the consumer loop: duplicate identities.    *)
(***************************************************************************)
\* Index in a call history of the first call whose key was inserted before
\* (0 when every key is distinct).
FirstDuplicate(h) ==
    LET dups == {j \in DOMAIN h : \E i \in 1..(j - 1) : h[i].call.key = h[j].call.key}
    IN  IF dups = {} THEN 0 ELSE CHOOSE j \in dups : \A k \in dups : j <= k

DuplicateApplied == backend.kind = "LongestPath" /\ FirstDuplicate(applied) # 0

\* C11: with the longest-path backend, the step in which the consumer applies
\* an insertion of an identity that is already present leaves the consumer in
\* its loop with no result and nothing emitted; the duplicate error is the
\* consumer's result only after finish was called, and once finish was called
\* on a backend that saw a duplicate the result is that error and no summary
\* was emitted.
C11_DuplicateSurfacesAtFinish ==
    /\ [](DuplicateApplied =>
            /\ (ConsumerFailed
                /\ Unwrap(Unwrap(consumer_result).err).error = "DuplicateKey")
                   => finish_calls = 1
            /\ finish_calls = 1 =>
                   /\ consumer_result =
                          Some(Err(Error("DuplicateKey",
                               Some(applied[FirstDuplicate(applied)].call.key))))
                   /\ emitted = <<>>)
    /\ [][(/\ backend'.kind = "LongestPath"
           /\ FirstDuplicate(applied') > Len(applied))
              => /\ consumer_pc' = "recv"
                 /\ consumer_result' = None
                 /\ emitted' = emitted
                 /\ finish_calls' = 0]_vars

\* A duplicate was inserted, the loop went on to BuildFinished, and finish
\* returned the duplicate error, which scope handed back.
C11_Witness ==
    /\ DuplicateApplied
    /\ FinishedReceived
    /\ finish_calls = 1
    /\ ConsumerFailed
    /\ Unwrap(Unwrap(consumer_result).err).error = "DuplicateKey"
    /\ scope_pc = "returned"

(***************************************************************************)
(* The build graph as the driver's calls describe it, for reference.       *)
(***************************************************************************)
\* The dependencies of v that were themselves called.
DriverSucc(g, v) == Range(g[v].dep_keys) \cap DOMAIN g

\* Every dependency chain: distinct vertices, each a dependency of the one
\* before it.
DriverChains(g) ==
    {c \in UNION {[1..n -> DOMAIN g] : n \in 1..Cardinality(DOMAIN g)} :
        /\ \A i, j \in DOMAIN c : i # j => c[i] # c[j]
        /\ \A i \in 1..(Len(c) - 1) : c[i + 1] \in DriverSucc(g, c[i])}

DriverAcyclic(g) ==
    \A c \in DriverChains(g) : c[1] \notin DriverSucc(g, c[Len(c)])

RECURSIVE ChainWeight(_, _)
ChainWeight(g, c) ==
    IF c = <<>> THEN 0 ELSE g[Head(c)].duration + ChainWeight(g, Tail(c))

HeaviestChains(g) ==
    {c \in DriverChains(g) :
        \A d \in DriverChains(g) : ChainWeight(g, d) <= ChainWeight(g, c)}

RECURSIVE SumOver(_, _)
SumOver(f, S) ==
    IF S = {} THEN 0
    ELSE LET k == CHOOSE x \in S : TRUE IN f[k] + SumOver(f, S \ {k})

\* The dependency references between called vertices, each counted as often
\* as it was named.
DriverEdges(g) ==
    SumOver([v \in DOMAIN g |->
                Len(SelectSeq(g[v].dep_keys, LAMBDA d : d \in DOMAIN g))],
            DOMAIN g)

\* What a summary says of a chain: key and duration of its vertices that
\* carry an action.
ChainReport(g, c) ==
    LET kept == SelectSeq(c, LAMBDA v : IsSome(g[v].value))
    IN  [i \in DOMAIN kept |-> <<Some(kept[i].id), Some(g[kept[i]].duration)>>]

ReportedPairs(event) ==
    [i \in DOMAIN event.critical_path |->
        <<event.critical_path[i].action_key, event.critical_path[i].duration>>]

DriverDone == consumer_pc = "done" /\ driver # None

\* C13: when the longest-path backend received distinct identities forming an
\* acyclic graph, with durations inside the microsecond range, finish returns
\* a summary whose critical path is a dependency chain of maximum total
\* duration and whose node and edge counts are the numbers of vertices and
\* edges of the whole graph.
C13_LongestPathIsHeaviestChain ==
    (/\ DriverDone
     /\ backend.kind = "LongestPath"
     /\ driver.once
     /\ DriverAcyclic(driver.graph)
     /\ \A v \in DOMAIN driver.graph : driver.graph[v].duration <= MicrosDurationMax)
        => /\ consumer_result = Some(Ok("()"))
           /\ Len(emitted) = 1
           /\ emitted[1].num_nodes = Cardinality(DOMAIN driver.graph)
           /\ emitted[1].num_edges = DriverEdges(driver.graph)
           /\ driver.graph # EmptyMap =>
                 \E c \in HeaviestChains(driver.graph) :
                     ReportedPairs(emitted[1]) = ChainReport(driver.graph, c)

\* Two disjoint chains, one vertex of duration 2 and two vertices of total
\* duration 3: the summary has the two-vertex chain and counts three vertices
\* and one edge.
C13_Witness ==
    /\ DriverDone
    /\ backend.kind = "LongestPath"
    /\ driver.once
    /\ Len(emitted) = 1
    /\ emitted[1].num_nodes = 3
    /\ emitted[1].num_edges = 1
    /\ Len(emitted[1].critical_path) = 2
    /\ \E c \in HeaviestChains(driver.graph) :
          /\ ChainWeight(driver.graph, c) = 3
          /\ \E v \in DOMAIN driver.graph :
                v \notin Range(c) /\ driver.graph[v].duration = 2

(***************************************************************************)
(* Streaming backend.                                                      *)
(***************************************************************************)
\* The largest total duration of a dependency chain that ends at node k
\* (k is the last to run: the chain is listed from k down its dependencies).
LongestChainTo(g, k) ==
    LET ending == {c \in DriverChains(g) : c[1] = k}
    IN  ChainWeight(g, CHOOSE c \in ending :
                           \A d \in ending : ChainWeight(g, d) <= ChainWeight(g, c))

RECURSIVE SumDurations(_)
SumDurations(entries) ==
    IF entries = <<>> THEN 0
    ELSE Unwrap(Head(entries).duration) + SumDurations(Tail(entries))

InOrderOnce == backend.kind = "Default" /\ driver # None /\ driver.once /\ driver.in_order

\* C14: when every node was signalled once and after all of its dependencies,
\* the streaming backend's record of each node holds the largest total
\* duration of a dependency chain ending at that node, every node extraction
\* can pick as terminal holds the length of the critical path, and the
\* durations of the summary add up to that length.
C14_StreamingExactInOrder ==
    InOrderOnce =>
        LET g == driver.graph
        IN  /\ DOMAIN backend.predecessors = DOMAIN g
            /\ \A k \in DOMAIN g :
                  backend.predecessors[k].duration = LongestChainTo(g, k)
            /\ \A t \in Terminals(backend.predecessors) :
                  \A c \in HeaviestChains(g) :
                      backend.predecessors[t].duration = ChainWeight(g, c)
            /\ (DriverDone /\ g # EmptyMap) =>
                  /\ Len(emitted) = 1
                  /\ \A c \in HeaviestChains(g) :
                        SumDurations(emitted[1].critical_path) = ChainWeight(g, c)

\* A node with two recorded dependencies, the first of them on the longer
\* chain, was signalled in order and the summary was produced.
C14_Witness ==
    /\ InOrderOnce
    /\ DriverDone
    /\ Len(emitted) = 1
    /\ \E k \in DOMAIN driver.graph :
          LET deps == driver.graph[k].dep_keys
          IN  /\ Len(deps) = 2
              /\ backend.predecessors[deps[1]].duration
                     > backend.predecessors[deps[2]].duration
              /\ backend.predecessors[k].prev = Some(deps[1])
              /\ backend.predecessors[k].duration = 3

StreamingDone == DriverDone /\ backend.kind = "Default"

\* C15: in the summary of the streaming backend no entry of the critical path
\* has zero duration and every entry is for a node recorded with an action,
\* while the node total is the number of process_node calls and the edge total
\* is the number of distinct dependency keys over all calls, whether or not
\* the nodes are reported.
C15_ReportedEntriesAndTotals ==
    StreamingDone =>
        /\ consumer_result = Some(Ok("()"))
        /\ Len(emitted) = 1
        /\ \A i \in DOMAIN emitted[1].critical_path :
              LET e == emitted[1].critical_path[i]
              IN  /\ e.duration # Some(0)
                  /\ IsSome(e.action_key)
                  /\ ActionKey(Unwrap(e.action_key)) \in DOMAIN backend.predecessors
                  /\ IsSome(backend.predecessors[ActionKey(Unwrap(e.action_key))].value)
        /\ emitted[1].num_nodes = driver.calls
        /\ emitted[1].num_edges = driver.edges

\* The terminal's chain has three nodes, one a redirection and one an action
\* of zero duration: the summary reports one entry and counts three nodes.
C15_Witness ==
    /\ StreamingDone
    /\ Len(emitted) = 1
    /\ Len(emitted[1].critical_path) = 1
    /\ emitted[1].num_nodes = 3
    /\ emitted[1].num_edges = 2
    /\ \E x \in extract_critical_path(backend.predecessors) :
          /\ ~x.diverges
          /\ Len(x.path) = 3
          /\ \E i \in DOMAIN x.path : ~IsSome(x.path[i].value)
          /\ \E i \in DOMAIN x.path : IsSome(x.path[i].value) /\ x.path[i].duration = 0

(***************************************************************************)
(* extract_critical_path called on a predecessor map built by hand, as the *)
(* unit tests do: integer keys, value Some(key), any cumulative duration,  *)
(* prev absent or a key of the map.                                        *)
(***************************************************************************)
ExtractKeys == 1..4

ExtractDurations == {5, 11, 14, 18}

\* cp_insert for every key of the set D: f gives each key its cumulative
\* duration and its prev.
CpInsertAll(D, f) == [k \in D |-> CriticalPathNode(f[k][1], Some(k), f[k][2])]

ExtractPrevs(D) == {None} \cup {Some(j) : j \in D}

ExtractInit ==
    /\ scope_pc = "none"
    /\ scope_result = None
    /\ work_result = None
    /\ func_calls = 0
    /\ queue = <<>>
    /\ receiver_alive = FALSE
    /\ senders = {}
    /\ consumer_pc = "none"
    /\ consumer_result = None
    /\ backend = NoBackend
    /\ emitted = <<>>
    /\ sends = 0
    /\ signal_ret = None
    /\ sent = <<>>
    /\ psent = [p \in Producers |-> <<>>]
    /\ applied = <<>>
    /\ dequeued = 0
    /\ finish_calls = 0
    /\ terminations = 0
    /\ scope_finished_sends = 0
    /\ driver = None
    /\ \E D \in SUBSET ExtractKeys :
          \E f \in [D -> ExtractDurations \X ExtractPrevs(D)] :
              extract_input = CpInsertAll(D, f)
    /\ extracted = None

\* extract_critical_path(&predecessors) returns.
ExtractCall ==
    /\ extracted = None
    /\ \E x \in extract_critical_path(extract_input) :
          /\ ~x.diverges
          /\ extracted' = Some(x.path)
    /\ UNCHANGED <<driver, extract_input>>
    /\ UNCHANGED scope_vars
    /\ UNCHANGED consumer_vars
    /\ UNCHANGED channel_vars
    /\ UNCHANGED <<senders, sends, scope_finished_sends>>

ExtractNext == ExtractCall

ExtractSpec == ExtractInit /\ [][ExtractNext]_vars

\* C16: extract_critical_path on an empty predecessor map returns, and what
\* it returns is the empty list.
C16_EmptyMapEmptyPath ==
    extract_input = EmptyMap =>
        /\ extract_critical_path(extract_input) = {[diverges |-> FALSE, path |-> <<>>]}
        /\ extracted # None => extracted = Some(<<>>)

\* The call on the empty map has returned.
C16_Witness ==
    /\ extract_input = EmptyMap
    /\ extracted = Some(<<>>)

\* The chain of prev links that ends at k, from its first node, walking at
\* most `fuel` links.
RECURSIVE PrevChainTo(_, _, _)
PrevChainTo(m, k, fuel) ==
    IF m[k].prev = None \/ fuel = 0 THEN <<k>>
    ELSE Append(PrevChainTo(m, Unwrap(m[k].prev), fuel - 1), k)

PrevChain(m, k) == PrevChainTo(m, k, Cardinality(DOMAIN m))

\* No walk along the prev links comes back to a node it has left.
AcyclicPrev(m) == \A k \in DOMAIN m : m[PrevChain(m, k)[1]].prev = None

MaxCumulative(m) ==
    {k \in DOMAIN m : \A j \in DOMAIN m : m[j].duration <= m[k].duration}

PathKeys(path) == [i \in DOMAIN path |-> path[i].key]

ExtractReturned == extract_input # EmptyMap /\ extracted # None

\* C17: on a non-empty map with acyclic prev links the returned list is, key
\* by key and with each key's value, the prev chain of one node of largest
\* cumulative duration, from the node without prev to that node; a map of a
\* single node of duration D yields that node with duration D.
C17_PathIsPrevChainOfTerminal ==
    (ExtractReturned /\ AcyclicPrev(extract_input)) =>
        LET m == extract_input
            path == Unwrap(extracted)
        IN  /\ \E t \in MaxCumulative(m) :
                  /\ PathKeys(path) = PrevChain(m, t)
                  /\ path[Len(path)].key = t
            /\ m[path[1].key].prev = None
            /\ \A i \in DOMAIN path : path[i].value = m[path[i].key].value
            /\ \A k \in DOMAIN m :
                  DOMAIN m = {k} =>
                      path = <<[key |-> k, value |-> m[k].value,
                                duration |-> m[k].duration]>>

\* The map of the test long_path: 1 -> 2 -> 3 with 5, 11, 18 and the sibling
\* 1 -> 4 with 14; the returned keys are 1, 2, 3 and 4 is left out.
C17_Witness ==
    /\ extract_input = CpInsertAll(1..4,
                                   [k \in 1..4 |->
                                       CASE k = 1 -> <<5, None>>
                                         [] k = 2 -> <<11, Some(1)>>
                                         [] k = 3 -> <<18, Some(2)>>
                                         [] k = 4 -> <<14, Some(1)>>])
    /\ extracted # None
    /\ PathKeys(Unwrap(extracted)) = <<1, 2, 3>>

\* Cumulative durations of the returned entries, as the map holds them.
Cumulative(i) == extract_input[Unwrap(extracted)[i].key].duration

\* C18 as stated: the first entry keeps its cumulative value and every later
\* entry's duration is its cumulative value minus the unconverted cumulative
\* value of the entry before it.
C18_DurationIsDifference ==
    ExtractReturned =>
        LET path == Unwrap(extracted)
        IN  /\ path[1].duration = Cumulative(1)
            /\ \A i \in 2..Len(path) :
                  path[i].duration = Cumulative(i) - Cumulative(i - 1)

\* C18, amended: the first entry keeps its cumulative value and every later
\* entry's duration is its cumulative value minus the unconverted cumulative
\* value of the entry before it, or zero when the entry before it has the
\* larger cumulative value.
C18_DurationIsClampedDifference ==
    ExtractReturned =>
        LET path == Unwrap(extracted)
        IN  /\ path[1].duration = Cumulative(1)
            /\ \A i \in 2..Len(path) :
                  path[i].duration =
                      IF Cumulative(i) >= Cumulative(i - 1)
                      THEN Cumulative(i) - Cumulative(i - 1)
                      ELSE 0

\* Cumulative values 5, 11, 18 along the chain came back as 5, 6, 7.
C18_Witness ==
    /\ ExtractReturned
    /\ Len(Unwrap(extracted)) = 3
    /\ [i \in 1..3 |-> Cumulative(i)] = <<5, 11, 18>>
    /\ [i \in 1..3 |-> Unwrap(extracted)[i].duration] = <<5, 6, 7>>

\* A call of the driver carried a duration whose microseconds do not fit u64.
OverflowCalled ==
    /\ driver # None
    /\ backend.kind = "LongestPath"
    /\ \E v \in DOMAIN driver.graph : driver.graph[v].duration > MicrosDurationMax

\* C19: when a vertex of the longest-path backend has a duration whose
\* microseconds do not fit u64, finish returns an error and no summary is
\* produced; with distinct identities the error is the conversion error.
C19_MicrosOverflowIsError ==
    (DriverDone /\ OverflowCalled) =>
        /\ ConsumerFailed
        /\ emitted = <<>>
        /\ driver.once =>
              consumer_result =
                  Some(Err(Error("DurationAsMicrosExceedsU64", None)))

\* Three distinct vertices, one of them beyond the range and another depending
\* on it: finish returned the conversion error.
C19_Witness ==
    /\ DriverDone
    /\ OverflowCalled
    /\ driver.once
    /\ driver.calls = 3
    /\ \E v, u \in DOMAIN driver.graph :
          /\ driver.graph[v].duration > MicrosDurationMax
          /\ v \in Range(driver.graph[u].dep_keys)
    /\ consumer_result = Some(Err(Error("DurationAsMicrosExceedsU64", None)))

\* Position of the first occurrence of k in a dependency sequence.
FirstIndex(deps, k) == CHOOSE i \in DOMAIN deps : deps[i] = k /\ \A j \in 1..(i - 1) : deps[j] # k

\* C20: a process_node call on the streaming backend records for its key:
\* when no dependency key has a record, no prev and the call's duration;
\* otherwise as prev the recorded dependency of largest cumulative duration,
\* among equals the one seen last in the dependency sequence, and as
\* cumulative duration that dependency's plus the call's duration.
C20_ProcessNodePicksLongestRecorded ==
    [][(backend.kind = "Default" /\ driver'.calls = driver.calls + 1) =>
          LET c == Unwrap(driver'.last)
              old == backend.predecessors
              new == backend'.predecessors[c.key]
              recorded == Range(c.dep_keys) \cap DOMAIN old
          IN  IF recorded = {}
              THEN new.prev = None /\ new.duration = c.duration
              ELSE \E p \in recorded :
                      /\ \A q \in recorded :
                            /\ old[q].duration <= old[p].duration
                            /\ (old[q].duration = old[p].duration /\ q # p) =>
                                   FirstIndex(c.dep_keys, q) < FirstIndex(c.dep_keys, p)
                      /\ new.prev = Some(p)
                      /\ new.duration = old[p].duration + c.duration]_vars

\* The last call named two recorded dependencies of equal cumulative duration
\* and the second became prev; an earlier call found no recorded dependency.
C20_Witness ==
    /\ backend.kind = "Default"
    /\ driver # None
    /\ driver.last # None
    /\ LET c == Unwrap(driver.last)
           m == backend.predecessors
       IN  /\ Len(c.dep_keys) = 2
           /\ Range(c.dep_keys) \subseteq DOMAIN m
           /\ m[c.dep_keys[1]].duration = m[c.dep_keys[2]].duration
           /\ m[c.dep_keys[2]].duration > 0
           /\ m[c.key].prev = Some(c.dep_keys[2])
           /\ m[c.key].duration = m[c.dep_keys[2]].duration + c.duration
           /\ c.duration > 0
           /\ \E k \in DOMAIN m : m[k].prev = None

\* A step in which the driver called process_node on the streaming backend.
StreamingCallStep == backend.kind = "Default" /\ driver'.calls = driver.calls + 1

\* C21: a process_node call on the streaming backend is never an error and
\* leaves the consumer in its loop; a dependency key without a record is not
\* taken as prev; the edge counter grows by the number of distinct dependency
\* keys of the call, recorded or not, and the node counter by one.
C21_CountersAndUnrecordedDeps ==
    [][StreamingCallStep =>
          LET c == Unwrap(driver'.last)
              new == backend'.predecessors[c.key]
          IN  /\ consumer_pc' = "recv"
              /\ consumer_result' = None
              /\ backend'.num_edges = backend.num_edges + Cardinality(Range(c.dep_keys))
              /\ backend'.num_nodes = backend.num_nodes + 1
              /\ \A k \in Range(c.dep_keys) \ DOMAIN backend.predecessors :
                    new.prev # Some(k)
              /\ (Range(c.dep_keys) \cap DOMAIN backend.predecessors = {}) =>
                    (new.prev = None /\ new.duration = c.duration)]_vars

\* The second call named a recorded key, an unrecorded key and the recorded
\* key again: two edges were counted for it and the recorded key became prev.
C21_Witness ==
    /\ backend.kind = "Default"
    /\ driver # None
    /\ driver.calls = 2
    /\ backend.num_nodes = 2
    /\ LET c == Unwrap(driver.last)
       IN  /\ Len(c.dep_keys) = 3
           /\ c.dep_keys[1] \in DOMAIN backend.predecessors
           /\ c.dep_keys[2] \notin DOMAIN backend.predecessors
           /\ backend.predecessors[c.key].prev = Some(c.dep_keys[1])
           /\ backend.num_edges = 2 + Cardinality(Range(driver.graph[c.dep_keys[1]].dep_keys))

\* The largest cumulative duration among the recorded dependencies of a call
\* (0 when none is recorded).
BestRecorded(m, deps) ==
    LET recorded == Range(deps) \cap DOMAIN m
    IN  IF recorded = {} THEN 0
        ELSE m[CHOOSE p \in recorded :
                   \A q \in recorded : m[q].duration <= m[p].duration].duration

\* C22: a process_node call on the streaming backend for a key that already
\* has a record is not an error and leaves for that key the record the call
\* alone determines: its metadata, its duration on top of the best recorded
\* dependency, and a recorded dependency or nothing as prev; every other
\* record, those with this key as prev included, is unchanged, and the node
\* counter is raised again.
C22_ReinsertionOverwrites ==
    [][(StreamingCallStep
        /\ Unwrap(driver'.last).key \in DOMAIN backend.predecessors) =>
          LET c == Unwrap(driver'.last)
              old == backend.predecessors
              new == backend'.predecessors
          IN  /\ consumer_pc' = "recv"
              /\ consumer_result' = None
              /\ DOMAIN new = DOMAIN old
              /\ new[c.key].value = c.value
              /\ new[c.key].duration = c.duration + BestRecorded(old, c.dep_keys)
              /\ new[c.key].prev \in
                     {None} \cup {Some(k) : k \in Range(c.dep_keys) \cap DOMAIN old}
              /\ \A k \in DOMAIN old \ {c.key} : new[k] = old[k]
              /\ backend'.num_nodes = backend.num_nodes + 1]_vars

\* A key was signalled again with another duration after a second node had
\* taken it as prev: the second node kept its cumulative duration, which is
\* no longer its own duration on top of its prev's, and three calls were
\* counted for two keys.
C22_Witness ==
    /\ backend.kind = "Default"
    /\ driver # None
    /\ backend.num_nodes = 3
    /\ Cardinality(DOMAIN backend.predecessors) = 2
    /\ LET c == Unwrap(driver.last)
           m == backend.predecessors
       IN  /\ m[c.key].duration = 0
           /\ m[c.key].value = None
           /\ \E k \in DOMAIN m :
                 /\ m[k].prev = Some(c.key)
                 /\ m[k].duration = 2

\* The paths extract_critical_path can return for the streaming backend's map.
StreamingPaths ==
    {x.path : x \in {y \in extract_critical_path(backend.predecessors) : ~y.diverges}}

\* C23 as stated: after any sequence of process_node calls, every entry of
\* the path finish extracts has as duration the own duration of the latest
\* call for its key, and so has every entry of the summary.
C23_OwnDurationsRecovered ==
    StreamingDone =>
        /\ \A path \in StreamingPaths :
              \A i \in DOMAIN path :
                  path[i].duration = driver.graph[path[i].key].duration
        /\ \A i \in DOMAIN emitted[1].critical_path :
              LET e == emitted[1].critical_path[i]
              IN  e.duration = Some(driver.graph[ActionKey(Unwrap(e.action_key))].duration)

\* C23, amended: after any sequence of process_node calls in which no key is
\* signalled more than once, every entry of the path finish extracts has as
\* duration the own duration of the call for its key, and so has every entry
\* of the summary.
C23_OwnDurationsRecoveredOnce ==
    (StreamingDone /\ driver.once) =>
        /\ \A path \in StreamingPaths :
              \A i \in DOMAIN path :
                  path[i].duration = driver.graph[path[i].key].duration
        /\ \A i \in DOMAIN emitted[1].critical_path :
              LET e == emitted[1].critical_path[i]
              IN  e.duration = Some(driver.graph[ActionKey(Unwrap(e.action_key))].duration)

\* Three keys signalled once each, the middle one before its dependency: the
\* summary has two entries of duration 1 and the extracted path two nodes.
C23_Witness ==
    /\ StreamingDone
    /\ driver.once
    /\ ~driver.in_order
    /\ driver.calls = 3
    /\ Len(emitted[1].critical_path) = 2
    /\ \A i \in 1..2 : emitted[1].critical_path[i].duration = Some(1)
    /\ \E path \in StreamingPaths : Len(path) = 2

(***************************************************************************)
(* Dispatcher: what each kind of signal is to be translated into.          *)
(***************************************************************************)
\* Whether call c is a translation of the non-terminal signal sig.
IsTranslationOf(c, sig) ==
    CASE sig.signal = "ActionExecution" ->
            LET consumed == SelectSeq(sig.action.inputs.groups,
                                LAMBDA g : g.group = "TransitiveSetProjection"
                                           \/ IsSome(g.action_key))
            IN  /\ c.key = ActionKey(sig.action.key)
                /\ c.value = Some(sig.action)
                /\ c.duration = sig.duration
                /\ c.dep_keys =
                       [i \in DOMAIN consumed |->
                           IF consumed[i].group = "TransitiveSetProjection"
                           THEN TransitiveSetProjection(consumed[i].key)
                           ELSE ActionKey(Unwrap(consumed[i].action_key))]
      [] sig.signal = "ActionRedirection" ->
            /\ c.key = ActionKey(sig.key)
            /\ c.value = None
            /\ c.duration = 0
            /\ c.dep_keys = <<ActionKey(sig.dest)>>
      [] sig.signal = "TransitiveSetComputation" ->
            /\ c.key = TransitiveSetProjection(sig.key)
            /\ c.value = None
            /\ c.duration = 0
            /\ Len(c.dep_keys) = Cardinality(sig.artifacts) + Cardinality(sig.set_deps)
            /\ Range(c.dep_keys) = {ActionKey(a) : a \in sig.artifacts}
                                   \cup {TransitiveSetProjection(d) : d \in sig.set_deps}

CallsFor(i) == {j \in DOMAIN applied : applied[j].seq = i}

C25_RedirectionIsZeroCostHop ==
    /\ [][(StreamingCallStep
           /\ Unwrap(driver'.last).value = None
           /\ Unwrap(driver'.last).dep_keys[1] \in DOMAIN backend.predecessors) =>
             LET c == Unwrap(driver'.last)
                 dest == c.dep_keys[1]
             IN  /\ backend'.predecessors[c.key].prev = Some(dest)
                 /\ backend'.predecessors[c.key].duration
                        = backend.predecessors[dest].duration]_vars
    /\ []((StreamingDone /\ InOrderOnce) =>
             /\ \A path \in StreamingPaths :
                   \A i \in DOMAIN path :
                       path[i].value = None =>
                           /\ i > 1
                           /\ path[i - 1].key = driver.graph[path[i].key].dep_keys[1]
                           /\ path[i].duration = 0
             /\ \A i \in DOMAIN emitted[1].critical_path :
                   LET k == ActionKey(Unwrap(emitted[1].critical_path[i].action_key))
                   IN  driver.graph[k].value # None)

\* B, then the redirection A -> B, then C depending on A: the path is B, A, C
\* and the summary has B and C.
C25_Witness ==
    /\ StreamingDone
    /\ InOrderOnce
    /\ \E path \in StreamingPaths :
          /\ Len(path) = 3
          /\ path[2].value = None
          /\ path[1].value # None
          /\ path[3].value # None
          /\ backend.predecessors[path[3].key].prev = Some(path[2].key)
          /\ backend.predecessors[path[2].key].duration
                 = backend.predecessors[path[1].key].duration
    /\ Len(emitted[1].critical_path) = 2

LongestPathCallStep ==
    backend.kind = "LongestPath" /\ driver'.calls = driver.calls + 1

\* C26: in the longest-path backend, the call that poisons the builder stores
\* the error of its own push, every call on a poisoned backend leaves the
\* backend as it was, and finish on a poisoned backend returns the stored
\* error: the error finish returns is the first one.
C26_PoisoningIsAbsorbing ==
    /\ [][LongestPathCallStep =>
             LET c == Unwrap(driver'.last)
             IN  /\ ~backend.builder.ok => backend' = backend
                 /\ (backend.builder.ok /\ ~backend'.builder.ok) =>
                        /\ c.key \in DOMAIN driver.graph
                        /\ backend'.builder.err
                               = Error("DuplicateKey", Some(c.key))]_vars
    /\ [][(/\ backend.kind = "LongestPath"
           /\ finish_calls' = finish_calls + 1
           /\ ~backend.builder.ok) =>
             consumer_result' = Some(Err(backend.builder.err))]_vars

\* A key was pushed twice, then a call for another key was made on the
\* poisoned backend, and finish returned the error of the second push.
C26_Witness ==
    /\ DriverDone
    /\ backend.kind = "LongestPath"
    /\ driver.calls = 3
    /\ ~backend.builder.ok
    /\ backend.builder.err.detail # Some(Unwrap(driver.last).key)
    /\ consumer_result = Some(Err(backend.builder.err))

\* Every order in which the driver's calls can be made, one call per key.
CallOrders(g) ==
    LET n == Cardinality(DOMAIN g)
    IN  {[i \in 1..n |-> [call |-> g[s[i]]]] :
            s \in {t \in [1..n -> DOMAIN g] :
                      \A i, j \in 1..n : i # j => t[i] # t[j]}}

\* What the claim compares of a finish result: success or the error, and of a
\* summary the total duration of the critical path and the two counts.
FinishOutcome(r) ==
    IF r.ok
    THEN <<TRUE, SumDurations(r.info.critical_path), r.info.num_nodes,
           r.info.num_edges>>
    ELSE <<FALSE, r.err>>

\* The same of what the consumer returned and emitted.
ConsumerOutcome ==
    IF Unwrap(consumer_result).ok
    THEN <<TRUE, SumDurations(emitted[1].critical_path), emitted[1].num_nodes,
           emitted[1].num_edges>>
    ELSE <<FALSE, Unwrap(Unwrap(consumer_result).err)>>

\* C27: when the longest-path backend was given calls with distinct
\* identities, the outcome of finish (error, or total critical-path duration
\* with node and edge counts) is the one finish has after the same calls made
\* in any other order, also when a call named a key inserted only later.
C27_InsertionOrderIndependent ==
    (/\ DriverDone
     /\ backend.kind = "LongestPath"
     /\ driver.once)
        => \A order \in CallOrders(driver.graph) :
              \A r \in LongestPathFinish(Replay(LongestPathGraphBackendNew, order)) :
                  FinishOutcome(r) = ConsumerOutcome

\* A call named a key that was inserted after it; the edge is counted and the
\* critical path runs over it.
C27_Witness ==
    /\ DriverDone
    /\ backend.kind = "LongestPath"
    /\ driver.once
    /\ ~driver.in_order
    /\ driver.calls = 3
    /\ Unwrap(consumer_result).ok
    /\ emitted[1].num_edges = 2
    /\ Len(emitted[1].critical_path) = 3
    /\ SumDurations(emitted[1].critical_path) = 5

\* C28: the step of scope that reads the switch and calls func is the only
\* step that changes which backend there is, and it is taken before func was
\* called: it installs the streaming backend when the switch is unset or
\* false and the longest-path backend when it is true; from then on the
\* backend keeps its kind and is the fresh backend of that kind with every
\* processed call applied to it in order.
C28_BackendSelectedOnce ==
    /\ [][\A env \in EnvValues :
             ScopeStart(env) =>
                 IF ~env.ok THEN backend' = NoBackend
                 ELSE IF env.value = Some(TRUE)
                      THEN backend' = LongestPathGraphBackendNew
                      ELSE backend' = DefaultBackendNew]_vars
    /\ [][backend'.kind # backend.kind =>
             /\ backend = NoBackend
             /\ scope_pc = "start"
             /\ func_calls = 0
             /\ func_calls' = 1
             /\ applied' = <<>>]_vars
    /\ [](ListenerStarted =>
             /\ backend.kind \in {"Default", "LongestPath"}
             /\ backend = Replay(FreshBackend, applied))

\* The longest-path backend was selected and has processed two signals.
C28_Witness ==
    /\ backend.kind = "LongestPath"
    /\ Len(applied) = 2
    /\ backend # LongestPathGraphBackendNew
    /\ func_calls = 1

\* C29: after any sequence of process_node calls on the streaming backend the
\* prev links of the predecessor map contain no cycle, and the walk of
\* extract_critical_path from each terminal it can pick comes to an end.
C29_PrevLinksAcyclic ==
    backend.kind = "Default" =>
        /\ AcyclicPrev(backend.predecessors)
        /\ \A r \in extract_critical_path(backend.predecessors) : ~r.diverges

\* C30: in every state of the streaming backend the prev key of each record,
\* when there is one, has a record of its own; and each path that
\* extract_critical_path returns begins at a record without prev.
C30_PrevKeysAreRecorded ==
    backend.kind = "Default" =>
        /\ \A k \in DOMAIN backend.predecessors :
              IsSome(backend.predecessors[k].prev) =>
                  Unwrap(backend.predecessors[k].prev) \in DOMAIN backend.predecessors
        /\ \A path \in StreamingPaths :
              path # <<>> => backend.predecessors[path[1].key].prev = None

\* A node was recorded while a dependency it names had no record, a later
\* node took it as prev, and the extracted path runs over both.
C30_Witness ==
    /\ StreamingDone
    /\ ~driver.in_order
    /\ \E k \in DOMAIN backend.predecessors :
          /\ backend.predecessors[k].prev = None
          /\ driver.graph[k].dep_keys # <<>>
          /\ \E path \in StreamingPaths :
                /\ Len(path) >= 2
                /\ path[1].key = k
                /\ backend.predecessors[path[2].key].prev = Some(k)

\* C31: a process_node call on the streaming backend changes nothing but the
\* record under its key and the two counters: the keys of the map are the
\* keys before with the call's key added, every record under another key is
\* as before, and neither counter gets smaller; no other step changes the
\* backend.
C31_ProcessNodeFrame ==
    /\ [][StreamingCallStep =>
             LET c == Unwrap(driver'.last)
             IN  /\ DOMAIN backend'.predecessors
                        = DOMAIN backend.predecessors \cup {c.key}
                 /\ \A k \in DOMAIN backend.predecessors \ {c.key} :
                        backend'.predecessors[k] = backend.predecessors[k]
                 /\ backend'.num_nodes >= backend.num_nodes
                 /\ backend'.num_edges >= backend.num_edges
                 /\ backend'.kind = backend.kind
                 /\ DOMAIN backend' = DOMAIN backend]_vars
    /\ [][(backend.kind = "Default" /\ driver'.calls = driver.calls) =>
             backend' = backend]_vars

\* Three calls, one of them for a key that had a record already and the last
\* one naming a recorded dependency, with two records in the map.
C31_Witness ==
    /\ backend.kind = "Default"
    /\ driver.calls = 3
    /\ ~driver.once
    /\ Cardinality(DOMAIN backend.predecessors) = 2
    /\ IsSome(backend.predecessors[Unwrap(driver.last).key].prev)
    /\ backend.num_nodes = 3

\* C32: when every key was signalled once and the dependencies named form no
\* cycle, whatever the order of the calls, the cumulative duration of each
\* record of the streaming backend is at most the largest total duration of
\* a dependency chain that ends at its node.
C32_NeverOverestimates ==
    (/\ backend.kind = "Default"
     /\ driver # None
     /\ driver.once
     /\ DriverAcyclic(driver.graph))
        => \A k \in DOMAIN backend.predecessors :
              backend.predecessors[k].duration <= LongestChainTo(driver.graph, k)

\* A dependent was signalled before its dependency: its record is smaller
\* than its longest chain, and another record reaches its own.
C32_Witness ==
    /\ backend.kind = "Default"
    /\ driver.once
    /\ ~driver.in_order
    /\ DriverAcyclic(driver.graph)
    /\ \E k \in DOMAIN backend.predecessors :
          backend.predecessors[k].duration < LongestChainTo(driver.graph, k)
    /\ \E k \in DOMAIN backend.predecessors :
          /\ backend.predecessors[k].duration = 2
          /\ LongestChainTo(driver.graph, k) = 2

(***************************************************************************)
(* The streaming backend on a chain of three actions, each depending on    *)
(* the one before it, where an action can be signalled again with another  *)
(* duration and the calls come in any order.                               *)
(***************************************************************************)
MaxChainCalls == 4

ChainCalls ==
    {Call(ActionKey(n), Some(BenchAction(ActionKey(n))), d,
          IF n = 1 THEN <<>> ELSE <<ActionKey(n - 1)>>) :
        n \in 1..3, d \in {0, 1}}

\* One backend.process_node call of the loop body, on a call of the chain.
ChainProcessNode(c) ==
    /\ consumer_pc = "recv"
    /\ driver.calls < MaxChainCalls
    /\ backend' = ApplyCall(backend, c)
    /\ driver' = DriverRecord(driver, c)
    /\ UNCHANGED <<consumer_pc, consumer_result, emitted, applied, dequeued,
                   finish_calls, terminations, receiver_alive, senders, sends,
                   scope_finished_sends, extract_input, extracted>>
    /\ UNCHANGED scope_vars
    /\ UNCHANGED channel_vars

ChainBackendNext ==
    \/ \E c \in ChainCalls : ChainProcessNode(c)
    \/ DriverFinish

ChainBackendSpec == DefaultBackendInit /\ [][ChainBackendNext]_vars

RECURSIVE PathDurationSum(_)
PathDurationSum(path) ==
    IF path = <<>> THEN 0 ELSE Head(path).duration + PathDurationSum(Tail(path))

\* The subtraction of extract_critical_path has nothing to clamp on the path:
\* no entry has a smaller cumulative duration than the entry before it.
NoClampOn(path) ==
    \A i \in 2..Len(path) :
        backend.predecessors[path[i].key].duration
            >= backend.predecessors[path[i - 1].key].duration

\* C33 as stated: for every predecessor map the calls can produce, the
\* durations of each path extract_critical_path returns add up to the largest
\* cumulative duration in the map, and the subtraction never clamps.
C33_PathSumsToTerminal ==
    backend.kind = "Default" =>
        \A path \in StreamingPaths :
            path # <<>> =>
                /\ NoClampOn(path)
                /\ \A k \in DOMAIN backend.predecessors :
                       backend.predecessors[k].duration <= PathDurationSum(path)
                /\ \E k \in DOMAIN backend.predecessors :
                       backend.predecessors[k].duration = PathDurationSum(path)

\* C33, amended: the same for every predecessor map produced by calls in
\* which no key is signalled more than once.
C33_PathSumsToTerminalOnce ==
    (backend.kind = "Default" /\ driver # None /\ driver.once) =>
        \A path \in StreamingPaths :
            path # <<>> =>
                /\ NoClampOn(path)
                /\ \A k \in DOMAIN backend.predecessors :
                       backend.predecessors[k].duration <= PathDurationSum(path)
                /\ \E k \in DOMAIN backend.predecessors :
                       backend.predecessors[k].duration = PathDurationSum(path)

\* The three actions of the chain were signalled once each, in order, with
\* durations 1, 0, 1: the path has the three of them and adds up to 2.
C33_Witness ==
    /\ StreamingDone
    /\ driver.once
    /\ driver.in_order
    /\ \E path \in StreamingPaths :
          /\ Len(path) = 3
          /\ PathDurationSum(path) = 2
          /\ path[2].duration = 0
          /\ backend.predecessors[path[3].key].duration = 2

\* C34: when the streaming backend was given calls with distinct identities,
\* each after the calls for all of its dependencies, the total duration of
\* the critical path in its summary is the total duration of the critical
\* path the longest-path backend reports for the same calls.
C34_BackendsAgreeOnTotal ==
    (StreamingDone /\ InOrderOnce) =>
        /\ consumer_result = Some(Ok("()"))
        /\ \A order \in CallOrders(driver.graph) :
              \A r \in LongestPathFinish(Replay(LongestPathGraphBackendNew, order)) :
                  /\ r.ok
                  /\ SumDurations(r.info.critical_path)
                         = SumDurations(emitted[1].critical_path)

\* A node with two recorded dependencies of different cumulative duration:
\* both backends report a total of 2.
C34_Witness ==
    /\ StreamingDone
    /\ InOrderOnce
    /\ driver.calls = 3
    /\ SumDurations(emitted[1].critical_path) = 2
    /\ \E k \in DOMAIN driver.graph :
          LET deps == driver.graph[k].dep_keys
          IN  /\ Len(deps) = 2
              /\ backend.predecessors[deps[1]].duration
                     # backend.predecessors[deps[2]].duration

\* C35: the streaming backend reports one critical path for the calls it was
\* given: whatever finish can return for the backend's state, the result and
\* the entries of the path, in their order, are the same.
C35_FinishIsDeterministic ==
    backend.kind = "Default" =>
        \A r1, r2 \in DefaultFinish(backend) : r1 = r2

\* The consumer has received a BuildFinished that a producer sent, and no
\* BuildFinished before it.
ProducerFinishedReceived ==
    /\ FirstFinished(sent) <= dequeued
    /\ sent[FirstFinished(sent)].from # "scope"

\* C36: once the consumer has received a BuildFinished sent by a producer, it
\* has left its loop with that signal as the last one dequeued; no call was
\* made for a signal sent after it; finish runs once, on the backend built
\* from the calls made before it, and gives the consumer's result and the
\* only summary; the BuildFinished that scope sends afterwards returns ()
\* and changes nothing of the consumer, and scope returns the work's result
\* unless the consumer itself failed.
C36_ProducerFinishedStopsConsumer ==
    /\ [](ProducerFinishedReceived =>
             /\ ConsumerStopped
             /\ dequeued = FirstFinished(sent)
             /\ \A i \in DOMAIN applied : applied[i].seq < FirstFinished(sent)
             /\ finish_calls <= 1
             /\ consumer_pc = "done" =>
                   /\ finish_calls = 1
                   /\ \E f \in RunAndLogFinish(Replay(FreshBackend, applied)) :
                         /\ f.events = emitted
                         /\ consumer_result = Some(f.result))
    /\ [][(/\ ProducerFinishedReceived
           /\ scope_finished_sends' = scope_finished_sends + 1) =>
             /\ signal_ret' = Some("()")
             /\ backend' = backend
             /\ applied' = applied
             /\ emitted' = emitted
             /\ finish_calls' = finish_calls
             /\ consumer_pc' = consumer_pc
             /\ consumer_result' = consumer_result]_vars
    /\ []((ProducerFinishedReceived /\ scope_pc = "returned" /\ ~ConsumerFailed) =>
             /\ scope_result = work_result
             /\ finish_calls = 1
             /\ Len(emitted) = 1)

\* A producer sent BuildFinished first; the consumer finalized on it; a later
\* signal of a producer and the BuildFinished of scope found the receiver
\* gone; scope returned the work's result.
C36_Witness ==
    /\ ProducerFinishedReceived
    /\ sends = 2
    /\ Len(sent) = 1
    /\ scope_finished_sends = 1
    /\ scope_pc = "returned"
    /\ scope_result = work_result
    /\ finish_calls = 1
    /\ Len(emitted) = 1

\* C37: scope invokes the work function exactly once in every execution:
\* never twice, once scope has gone past reading the switch the work has been
\* invoked with a sender, and scope does not return without the work having
\* run, also when the switch cannot be read.
C37_WorkAlwaysRuns ==
    /\ func_calls <= 1
    /\ scope_pc # "start" => func_calls = 1
    /\ scope_pc = "returned" => WorkDone
    /\ func_calls = 1 => ListenerStarted

====
